---- MODULE Spec2Model ----
(***************************************************************************)
(* BorgDash, backend/storage.py: the file-backed record store of a backup  *)
(* monitoring service.  The state is the data directory (one sub-directory *)
(* of JSON files per job); the operations are the push handlers            *)
(* store_backup_run, store_borg_info, store_borgmatic_info,                *)
(* store_borgmatic_rinfo and store_event.                                  *)
(*                                                                         *)
(* Representation of Python values:                                        *)
(*   None is << >>, a present optional value v is <<v>>;                   *)
(*   a dict is a function whose DOMAIN is its key set;                     *)
(*   a file is << >> when it does not exist and <<content>> when it does;  *)
(*   a datetime is [wall, tz]: the wall-clock reading in ticks and the     *)
(*   UTC-offset suffix isoformat() prints ("" for a naive datetime).  The  *)
(*   ISO string of a datetime is represented by the same record, and is    *)
(*   compared as a string by IsoLess: wall-clock digits first, then the    *)
(*   suffix.  A reading on a half second carries the field half (the       *)
(*   microsecond digits .500000); other microseconds are not modelled.     *)
(*   A str the code matches against a pattern is the sequence of its       *)
(*   characters; a job configuration file is the dict toml.load returns    *)
(*   for it; an API key is [str, chars, id]: whether it is a str, its      *)
(*   length, and what tells it from the other keys.                        *)
(*                                                                         *)
(* Specifications:                                                         *)
(*   Spec       the handlers called one at a time, without faults;         *)
(*   RunSpec    store_backup_run called one call at a time, over run ids   *)
(*              1..RunCap+1, the run list capped at RunCap;                *)
(*   FaultSpec  the handlers called one at a time, a call meeting an I/O   *)
(*              error or a crash at one of its writes;                     *)
(*   ConcSpec   two server processes on one data directory, interleaved    *)
(*              at their file operations;                                  *)
(*   AgeSpec    parse_max_age_to_seconds and _calculate_schedule_status    *)
(*              applied to bounded sets of inputs;                         *)
(*   QuerySpec  pushes and queries at the HTTP routes, one request at a    *)
(*              time;                                                      *)
(*   RunDetailSpec  the calls of RunSpec, then get_run_details for one     *)
(*              run id;                                                    *)
(*   LogSpec    store_backup_run with and without log lines, then          *)
(*              get_run_details;                                           *)
(*   DurationSpec  one store_backup_run over start and end times on whole  *)
(*              and half seconds;                                          *)
(*   StatsSpec  one store_borg_info over sizes of the repository cache;    *)
(*   FrameSpec  the handlers called one at a time for either of two jobs;  *)
(*   ConfigSpec the job configuration directory: validation, the job       *)
(*              queries and the token checks over bounded sets of          *)
(*              configuration files, the operator editing files between.   *)
(***************************************************************************)
EXTENDS Integers, Sequences, FiniteSets, TLC

\* ------------------------------------------------------------------ bounds
\* number of handler invocations explored in one behaviour
MaxOps == 3
\* number of handler invocations explored in the run-list specification
MaxRunOps == 4
\* the run list keeps runs_list[:100]; the model keeps runs_list[:RunCap]
RunCap == 2
\* first clock reading of the server
StartClock == 20
\* number of handler invocations explored with two server processes
MaxConcOps == 2
\* number of handler invocations explored with failing writes
MaxFaultOps == 2
\* number of handler invocations explored with two jobs being pushed to
MaxFrameOps == 4
\* number of push requests explored before the queries
MaxQueryOps == 2
\* length of the longest max_age string given to parse_max_age_to_seconds
MaxTextLen == 3
\* number of run pushes explored before the question about a run's log
MaxLogOps == 3
\* number of calls and edits explored on the job configuration directory
\* before the job queries and the later token checks
MaxConfigOps == 2

\* ------------------------------------------------------- python primitives
None == << >>
Some(v) == <<v>>
IsNone(o) == Len(o) = 0
EmptyDict == << >>
Has(d, k) == k \in DOMAIN d
Get(d, k, default) == IF k \in DOMAIN d THEN d[k] ELSE default
Put(d, k, v) == (k :> v) @@ d
\* d[k] = v where the code has d.setdefault(k, v)
SetDefaultOverwrites(d, k, v) == (k :> v) @@ d
SetDefault(d, k, v) == d @@ (k :> v)
Restrict(d, keys) == [k \in (DOMAIN d) \cap keys |-> d[k]]

Absent == << >>
File(content) == <<content>>
Exists(f) == Len(f) > 0
Content(f) == f[1]

\* ------------------------------------------------------------- datetimes
TzHours(tz) == CASE tz = "" -> 0 [] tz = "+00:00" -> 0 [] tz = "+04:00" -> 4
TzRank(tz) == CASE tz = "" -> 0 [] tz = "+00:00" -> 1 [] tz = "+04:00" -> 2
\* the instant a datetime denotes (a naive one is read as server-local = UTC)
Instant(t) == t.wall - TzHours(t.tz)
\* the half seconds of a datetime whose microsecond is 500000: the field
\* half, carried only by datetimes that are not at a whole second
Halves(t) == IF "half" \in DOMAIN t THEN t.half ELSE 0
\* str < str on two isoformat() strings of equal date-time width:
\* isoformat() prints ".500000" before the UTC offset, and "." sorts above
\* "+" and above the end of the string
IsoLess(a, b) == \/ a.wall < b.wall
                 \/ a.wall = b.wall /\ Halves(a) < Halves(b)
                 \/ a.wall = b.wall /\ Halves(a) = Halves(b)
                                    /\ TzRank(a.tz) < TzRank(b.tz)
\* datetime.now(): a naive datetime at the server clock
Now(clock) == [wall |-> clock, tz |-> ""]

\* ------------------------------------------------------------ formatting
Units == <<"B", "KB", "MB", "GB", "TB">>
\* the loop of _format_size: size_bytes / div is the running value `size`, k
\* the index of the unit tried; the value is printed in the first unit in
\* which it is below 1024, to one decimal (tenths), and in PB after TB.
\* (TLC's integers are 32 bits wide: byte counts stay below 2^26.)
RECURSIVE format_loop(_, _, _)
format_loop(size_bytes, k, div) ==
    IF k > Len(Units) \/ size_bytes \div div < 1024
    THEN [tenths |-> (2 * 10 * size_bytes + div) \div (2 * div),
          unit |-> IF k > Len(Units) THEN "PB" ELSE Units[k],
          plain |-> FALSE]
    ELSE format_loop(size_bytes, k + 1, div * 1024)
\* DataStorage._format_size.  "0 B" is printed without a decimal; a formatted
\* size is [tenths, unit, plain], plain marking the "0 B" form.
format_size(size_bytes) ==
    IF size_bytes = 0
    THEN [tenths |-> 0, unit |-> "B", plain |-> TRUE]
    ELSE format_loop(size_bytes, 1, 1)
ZeroB == [tenths |-> 0, unit |-> "B", plain |-> TRUE]
\* a percentage is [tenths, plain]: plain marks the literal "0%"
ZeroPct == [tenths |-> 0, plain |-> TRUE]
\* f"{(1 - compressed/total) * 100:.1f}%"
RatioPct(total_size, compressed_size) ==
    [tenths |-> (2 * 1000 * (total_size - compressed_size) + total_size)
                   \div (2 * total_size),
     plain |-> FALSE]

\* ------------------------------------------------------- summary updates
\* an update that moves last_backup forward only: a run that started before
\* the recorded last_backup leaves it as it is
update_summary_from_newest_run(cache_data, job_id, run_data, clock) ==
    LET c1 == Put(Put(cache_data, "job_id", job_id), "last_updated", Now(clock))
        c2 == IF /\ ~IsNone(run_data.start_time)
                 /\ Has(c1, "last_backup") => c1["last_backup"].wall <= run_data.start_time[1].wall
              THEN Put(c1, "last_backup", run_data.start_time[1]) ELSE c1
        c3 == IF run_data.status = "success" /\ ~IsNone(run_data.start_time)
              THEN Put(c2, "last_successful_backup", run_data.start_time[1])
              ELSE c2
        c4 == IF run_data.status # "" THEN Put(c3, "status", run_data.status)
              ELSE c3
        c5 == SetDefault(c4, "archive_count", 0)
        c6 == SetDefault(c5, "full_size", ZeroB)
        c7 == SetDefault(c6, "compressed_size", ZeroB)
        c8 == SetDefault(c7, "deduplicated_size", ZeroB)
        c9 == SetDefault(c8, "compression_ratio", ZeroPct)
        c10 == SetDefault(c9, "repository_path", "")
    IN SetDefault(c10, "backup_type", "borgmatic")

\* DataStorage._update_summary_from_run: the new content of job_summary.json
\* computed from the content just read (cache_data, {} when the file is
\* absent).  run_data.start_time is an optional datetime.
update_summary_from_run(cache_data, job_id, run_data, clock) ==
    LET c1 == Put(Put(cache_data, "job_id", job_id), "last_updated", Now(clock))
        c2 == IF ~IsNone(run_data.start_time)
              THEN Put(c1, "last_backup", run_data.start_time[1]) ELSE c1
        c3 == IF run_data.status = "success" /\ ~IsNone(run_data.start_time)
              THEN Put(c2, "last_successful_backup", run_data.start_time[1])
              ELSE c2
        c4 == IF run_data.status # "" THEN Put(c3, "status", run_data.status)
              ELSE c3
        c5 == SetDefault(c4, "archive_count", 0)
        c6 == SetDefault(c5, "full_size", ZeroB)
        c7 == SetDefault(c6, "compressed_size", ZeroB)
        c8 == SetDefault(c7, "deduplicated_size", ZeroB)
        c9 == SetDefault(c8, "compression_ratio", ZeroPct)
        c10 == SetDefault(c9, "repository_path", "")
    IN SetDefault(c10, "backup_type", "borgmatic")

\* DataStorage._update_summary_from_borg_info
update_summary_from_borg_info(cache_data, job_id, repository_info, archive_list, clock) ==
    LET c1 == Put(cache_data, "archive_count", Len(archive_list))
        repo_stats == Get(Get(repository_info, "cache", EmptyDict), "stats", EmptyDict)
        total_size == Get(repo_stats, "total_size", 0)
        compressed_size == Get(repo_stats, "total_csize", 0)
        deduplicated_size == Get(repo_stats, "unique_size", 0)
        c2 == IF DOMAIN repo_stats # {}
              THEN LET s1 == Put(c1, "full_size", format_size(total_size))
                       s2 == Put(s1, "compressed_size", format_size(compressed_size))
                       s3 == Put(s2, "deduplicated_size", format_size(deduplicated_size))
                   IN IF total_size > 0 /\ compressed_size > 0
                      THEN Put(s3, "compression_ratio", RatioPct(total_size, compressed_size))
                      ELSE Put(s3, "compression_ratio", ZeroPct)
              ELSE c1
        c3 == IF Has(repository_info, "repository")
                 /\ Has(repository_info["repository"], "location")
              THEN Put(c2, "repository_path", repository_info["repository"]["location"])
              ELSE c2
        c4 == Put(c3, "last_updated", Now(clock))
        c5 == Put(c4, "job_id", job_id)
        c6 == SetDefault(c5, "backup_type", "borgmatic")
        c7 == SetDefault(c6, "status", "unknown")
    IN SetDefault(c7, "schedule_status", "unknown")

\* every event taken for the terminal one, whatever its action
ActionOfUngated(extra) == Some("everything")
\* extra.get('action') if extra else None   (extra is an optional dict)
ActionOf(extra) ==
    IF IsNone(extra) THEN None
    ELSE IF DOMAIN extra[1] = {} THEN None
    ELSE IF Has(extra[1], "action") THEN Some(extra[1]["action"]) ELSE None

\* _update_summary_from_event dating the last successful backup with every
\* terminal event, the failed one too
update_summary_from_event_any_outcome(cache_data, job_id, event_type, timestamp, extra, clock) ==
    LET action == ActionOf(extra)
        c1 == IF event_type \in {"success", "failed"} /\ action = Some("everything")
              THEN LET e1 == Put(cache_data, "status", event_type)
                       e2 == Put(e1, "last_backup", timestamp)
                   IN Put(e2, "last_successful_backup", timestamp)
              ELSE cache_data
        c2 == Put(c1, "last_updated", Now(clock))
        c3 == Put(c2, "job_id", job_id)
        c4 == SetDefault(c3, "archive_count", 0)
        c5 == SetDefault(c4, "full_size", ZeroB)
        c6 == SetDefault(c5, "compressed_size", ZeroB)
        c7 == SetDefault(c6, "deduplicated_size", ZeroB)
        c8 == SetDefault(c7, "compression_ratio", ZeroPct)
        c9 == SetDefault(c8, "repository_path", "")
    IN SetDefault(c9, "backup_type", "borgmatic")

\* DataStorage._update_summary_from_event
update_summary_from_event(cache_data, job_id, event_type, timestamp, extra, clock) ==
    LET action == ActionOf(extra)
        c1 == IF event_type \in {"success", "failed"} /\ action = Some("everything")
              THEN LET e1 == Put(cache_data, "status", event_type)
                       e2 == Put(e1, "last_backup", timestamp)
                   IN IF event_type = "success"
                      THEN Put(e2, "last_successful_backup", timestamp)
                      ELSE e2
              ELSE cache_data
        c2 == Put(c1, "last_updated", Now(clock))
        c3 == Put(c2, "job_id", job_id)
        c4 == SetDefault(c3, "archive_count", 0)
        c5 == SetDefault(c4, "full_size", ZeroB)
        c6 == SetDefault(c5, "compressed_size", ZeroB)
        c7 == SetDefault(c6, "deduplicated_size", ZeroB)
        c8 == SetDefault(c7, "compression_ratio", ZeroPct)
        c9 == SetDefault(c8, "repository_path", "")
    IN SetDefault(c9, "backup_type", "borgmatic")

\* DataStorage._update_job_summary: the update of the legacy summary.json
update_job_summary(summary, job_id, run_data, clock) ==
    LET s1 == Put(summary, "job_id", job_id)
        s2 == Put(s1, "last_run", run_data.start_time)
        s3 == Put(s2, "last_status", run_data.status)
    IN Put(s3, "last_updated", Now(clock))

\* ---------------------------------------------------------------- runs
\* (end - start).total_seconds() in half seconds, a clock tick read as a
\* second
total_half_seconds(start_time, end_time) ==
    2 * (Instant(end_time) - Instant(start_time)) + Halves(end_time) - Halves(start_time)
\* the largest whole number of seconds not above the half seconds
floor_seconds(half_seconds) == half_seconds \div 2
\* int(x) on a float: the fraction is cut off, towards zero
int_seconds(half_seconds) ==
    IF half_seconds >= 0 THEN half_seconds \div 2 ELSE -((-half_seconds) \div 2)
\* f"{int((end - start).total_seconds())}s"
Duration(start_time, end_time) ==
    <<int_seconds(total_half_seconds(start_time, end_time)), "s">>

\* the run_info dict store_backup_run writes to run_<id>.json
run_info(run_data) ==
    [id |-> run_data.run_id,
     status |-> run_data.status,
     timestamp |-> run_data.start_time,
     end_timestamp |-> run_data.end_time,
     exit_code |-> run_data.exit_code,
     error_message |-> run_data.error_message,
     duration |-> IF ~IsNone(run_data.start_time) /\ ~IsNone(run_data.end_time)
                  THEN Some(Duration(run_data.start_time[1], run_data.end_time[1]))
                  ELSE None]

\* the run_entry dict of _update_runs_from_run ('duration' only when computed)
run_entry(run_data) ==
    LET e == [id |-> run_data.run_id,
              status |-> run_data.status,
              timestamp |-> run_data.start_time,
              end_timestamp |-> run_data.end_time,
              exit_code |-> run_data.exit_code,
              error_message |-> run_data.error_message]
    IN IF ~IsNone(run_data.start_time) /\ ~IsNone(run_data.end_time)
       THEN Put(e, "duration", Duration(run_data.start_time[1], run_data.end_time[1]))
       ELSE e

\* index of the first entry with the given id, 0 when there is none
IndexOfRun(runs_list, run_id) ==
    LET hits == {i \in 1..Len(runs_list) : runs_list[i].id = run_id}
    IN IF hits = {} THEN 0 ELSE CHOOSE i \in hits : \A k \in hits : i <= k

\* the entry appended whether or not its id is in the list
UpsertRunAppends(runs_list, entry) == Append(runs_list, entry)
\* replace the entry with the same id in place, else append
UpsertRun(runs_list, entry) ==
    LET i == IndexOfRun(runs_list, entry.id)
    IN IF i = 0 THEN Append(runs_list, entry)
       ELSE [runs_list EXCEPT ![i] = entry]

\* one insertion of the stable descending sort on the 'timestamp' string:
\* e goes before the first entry whose key is smaller than its own
InsertDesc(sorted, e) ==
    LET smaller == {i \in 1..Len(sorted) : IsoLess(sorted[i].timestamp[1], e.timestamp[1])}
        pos == IF smaller = {} THEN Len(sorted) + 1
               ELSE CHOOSE i \in smaller : \A k \in smaller : i <= k
    IN SubSeq(sorted, 1, pos - 1) \o <<e>> \o SubSeq(sorted, pos, Len(sorted))

RECURSIVE SortOnto(_, _)
SortOnto(sorted, rest) ==
    IF rest = << >> THEN sorted
    ELSE SortOnto(InsertDesc(sorted, Head(rest)), Tail(rest))

\* runs_list.sort(key=lambda x: x.get('timestamp', ''), reverse=True)
\* (every stored entry carries a timestamp: start_time is a required field)
SortRunsDesc(runs_list) == SortOnto(<< >>, runs_list)

\* runs_list[:100], scaled to RunCap
KeepRecent(runs_list) ==
    SubSeq(runs_list, 1, IF Len(runs_list) < RunCap THEN Len(runs_list) ELSE RunCap)

\* DataStorage._update_runs_from_run: the new content of runs.json
update_runs_from_run(runs_data, run_data) ==
    LET runs_list == UpsertRun(Get(runs_data, "runs", << >>), run_entry(run_data))
    IN Put(runs_data, "runs", KeepRecent(SortRunsDesc(runs_list)))

\* ------------------------------------------------- borgmatic payloads
\* A pushed payload is [is_list, v]: v is the list of repository dicts when
\* is_list, and holds the one pushed dict otherwise.
\* DataStorage._extract_repository_info
extract_repository_info(data) ==
    Restrict(data, {"repository", "cache", "encryption", "security_dir"})

\* data.get('repository', {}).get('location', '')
LocationOf(data) == Get(Get(data, "repository", EmptyDict), "location", "")

\* what one repository dict contributes in store_borgmatic_info
PartsOfRepo(repo) ==
    [repository_info |-> extract_repository_info(repo),
     repository_path |-> LocationOf(repo),
     archives |-> Get(repo, "archives", << >>)]

NoParts == [repository_info |-> EmptyDict, repository_path |-> "", archives |-> << >>]

\* store_borgmatic_info, lines 497-513: a non-empty list contributes its
\* first entry, a dict itself, an empty list nothing
info_parts(info_data) ==
    IF info_data.is_list /\ Len(info_data.v) > 0 THEN PartsOfRepo(info_data.v[1])
    ELSE IF ~info_data.is_list THEN PartsOfRepo(info_data.v[1])
    ELSE NoParts

\* store_borgmatic_rinfo, lines 557-564: the loop over a list payload
RECURSIVE rinfo_loop(_, _)
rinfo_loop(acc, repos) ==
    IF repos = << >> THEN acc
    ELSE LET repo_info == Head(repos)
             a1 == IF Has(repo_info, "archives")
                   THEN [acc EXCEPT !.archives = @ \o repo_info["archives"]]
                   ELSE acc
             a2 == IF DOMAIN a1.repository_info = {} /\ DOMAIN repo_info # {}
                   THEN [a1 EXCEPT !.repository_info = extract_repository_info(repo_info),
                                   !.repository_path = LocationOf(repo_info)]
                   ELSE a1
         IN rinfo_loop(a2, Tail(repos))

\* store_borgmatic_rinfo, lines 551-569
rinfo_parts(rinfo_data) ==
    IF rinfo_data.is_list THEN rinfo_loop(NoParts, rinfo_data.v)
    ELSE PartsOfRepo(rinfo_data.v[1])

\* ------------------------------------------------------------ handlers
\* A handler is the sequence of the file operations it performs, in program
\* order.  A step is [act, file, key, scope]: scope lists the functions with
\* an exception-swallowing try block the step runs inside, outermost first
\* (<< >>: only the handler's own try block, which re-raises).
Step(act, file, key, scope) == [act |-> act, file |-> file, key |-> key, scope |-> scope]

\* a store_backup_run that opens the log file for writing whatever
\* log_lines holds
store_backup_run_with_log(run_data) ==
    <<Step("write", "run_files", run_data.run_id, << >>),
      Step("write", "logs", run_data.run_id, << >>),
      Step("read", "summary", 0, <<"update_job_summary">>),
      Step("write", "summary", 0, <<"update_job_summary">>),
      Step("read", "job_summary", 0, <<"update_job_summary", "update_summary_from_run">>),
      Step("write", "job_summary", 0, <<"update_job_summary", "update_summary_from_run">>),
      Step("read", "runs", 0, <<"update_job_summary", "update_runs_from_run">>),
      Step("write", "runs", 0, <<"update_job_summary", "update_runs_from_run">>)>>

\* DataStorage.store_backup_run with _update_job_summary,
\* _update_summary_from_run and _update_runs_from_run
store_backup_run(run_data) ==
    <<Step("write", "run_files", run_data.run_id, << >>)>>
    \o (IF run_data.log_lines # << >>
        THEN <<Step("write", "logs", run_data.run_id, << >>)>> ELSE << >>)
    \o <<Step("read", "summary", 0, <<"update_job_summary">>),
         Step("write", "summary", 0, <<"update_job_summary">>),
         Step("read", "job_summary", 0, <<"update_job_summary", "update_summary_from_run">>),
         Step("write", "job_summary", 0, <<"update_job_summary", "update_summary_from_run">>),
         Step("read", "runs", 0, <<"update_job_summary", "update_runs_from_run">>),
         Step("write", "runs", 0, <<"update_job_summary", "update_runs_from_run">>)>>

\* the read and the write of job_summary.json in _update_summary_from_borg_info
SummaryFromBorgInfoSteps ==
    <<Step("read", "job_summary", 0, <<"update_summary_from_borg_info">>),
      Step("write", "job_summary", 0, <<"update_summary_from_borg_info">>)>>

\* DataStorage.store_borg_info
store_borg_info(args) ==
    <<Step("write", "repository_info", 0, << >>),
      Step("write", "archives", 0, << >>)>>
    \o SummaryFromBorgInfoSteps

\* DataStorage.store_borgmatic_info
store_borgmatic_info(args) ==
    LET parts == info_parts(args.data)
    IN (IF DOMAIN parts.repository_info # {}
        THEN <<Step("write", "repository_info", 0, << >>)>> ELSE << >>)
       \o (IF parts.archives # << >>
           THEN <<Step("write", "archives", 0, << >>)>> ELSE << >>)
       \o (IF parts.archives # << >> THEN SummaryFromBorgInfoSteps ELSE << >>)

\* DataStorage.store_borgmatic_rinfo
store_borgmatic_rinfo(args) ==
    LET parts == rinfo_parts(args.data)
    IN (IF DOMAIN parts.repository_info # {}
        THEN <<Step("write", "repository_info", 0, << >>)>> ELSE << >>)
       \o (IF parts.archives # << >>
           THEN <<Step("write", "archives", 0, << >>)>> ELSE << >>)
       \o (IF parts.archives # << >> /\ DOMAIN parts.repository_info # {}
           THEN SummaryFromBorgInfoSteps ELSE << >>)

\* a store_event that names the event file after the event type
store_event_by_type(args) ==
    <<Step("write", "events", args.event_type, << >>)>>
    \o (IF ~IsNone(args.info) /\ args.info[1] # ""
        THEN <<Step("write", "infos", args.event_type, << >>)>> ELSE << >>)
    \o <<Step("read", "job_summary", 0, <<"update_summary_from_event">>),
         Step("write", "job_summary", 0, <<"update_summary_from_event">>)>>

\* DataStorage.store_event with _update_summary_from_event
store_event(args) ==
    <<Step("write", "events", args.event_id, << >>)>>
    \o (IF ~IsNone(args.info) /\ args.info[1] # ""
        THEN <<Step("write", "infos", args.event_id, << >>)>> ELSE << >>)
    \o <<Step("read", "job_summary", 0, <<"update_summary_from_event">>),
         Step("write", "job_summary", 0, <<"update_summary_from_event">>)>>

\* An invocation is [kind, job, t0, args]: t0 is the clock when it began.
Program(op) ==
    CASE op.kind = "run" -> store_backup_run(op.args)
      [] op.kind = "borg_info" -> store_borg_info(op.args)
      [] op.kind = "borgmatic_info" -> store_borgmatic_info(op.args)
      [] op.kind = "borgmatic_rinfo" -> store_borgmatic_rinfo(op.args)
      [] op.kind = "event" -> store_event(op.args)

\* the repository info and archive list a snapshot push hands to
\* _update_summary_from_borg_info and to the two json.dump calls
SnapshotParts(op) ==
    CASE op.kind = "borg_info" ->
            [repository_info |-> op.args.repository_info,
             repository_path |-> "", archives |-> op.args.archive_list]
      [] op.kind = "borgmatic_info" -> info_parts(op.args.data)
      [] op.kind = "borgmatic_rinfo" -> rinfo_parts(op.args.data)

\* store_borgmatic_info line 535: the stand-in when only archives were pushed
SummaryRepoInfo(op) ==
    LET parts == SnapshotParts(op)
    IN IF op.kind = "borgmatic_info" /\ DOMAIN parts.repository_info = {}
       THEN [repository |-> [location |-> parts.repository_path]]
       ELSE parts.repository_info

\* the event_data dict of store_event
event_data(op) ==
    [id |-> op.args.event_id,
     type |-> op.args.event_type,
     timestamp |-> Now(op.t0),
     message |-> op.args.message,
     has_info |-> ~IsNone(op.args.info),
     extra |-> IF IsNone(op.args.extra) THEN EmptyDict ELSE op.args.extra[1]]

\* the value a write step stores: computed from the handler's arguments and,
\* after a read step, from the content that step loaded (loc)
WriteValue(op, step, loc, clock) ==
    CASE step.file = "run_files" -> run_info(op.args)
      [] step.file = "logs" -> op.args.log_lines
      [] step.file = "summary" -> update_job_summary(loc, op.job, op.args, clock)
      [] step.file = "runs" -> update_runs_from_run(loc, op.args)
      [] step.file = "repository_info" -> SnapshotParts(op).repository_info
      [] step.file = "archives" -> SnapshotParts(op).archives
      [] step.file = "events" -> event_data(op)
      [] step.file = "infos" -> op.args.info[1]
      [] step.file = "job_summary" ->
            CASE op.kind = "run" ->
                    update_summary_from_run(loc, op.job, op.args, clock)
              [] op.kind = "event" ->
                    update_summary_from_event(loc, op.job, op.args.event_type,
                                              Now(op.t0), op.args.extra, clock)
              [] OTHER ->
                    update_summary_from_borg_info(loc, op.job, SummaryRepoInfo(op),
                                                  SnapshotParts(op).archives, clock)

\* the files of one job directory
SingleFiles == {"job_summary", "summary", "runs", "archives", "repository_info"}
EmptyJobDir ==
    [job_summary |-> Absent, summary |-> Absent, runs |-> Absent,
     archives |-> Absent, repository_info |-> Absent,
     run_files |-> EmptyDict, logs |-> EmptyDict,
     events |-> EmptyDict, infos |-> EmptyDict]

\* the content of job_summary.json, {} when there is none
SummaryOf(dir) == IF Exists(dir.job_summary) THEN Content(dir.job_summary) ELSE EmptyDict
\* the content of archives.json, [] when there is none
ArchivesOf(dir) == IF Exists(dir.archives) THEN Content(dir.archives) ELSE << >>
\* the run list of runs.json, [] when there is none
RunsOf(dir) == IF Exists(dir.runs) THEN Get(Content(dir.runs), "runs", << >>) ELSE << >>

\* the content of a file that holds no JSON document (an emptied file, or
\* the mix two overlapping writes leave)
Garbled == [garbled |-> TRUE]

\* what a read step loads: the file's content, or the handler's default
ReadFile(dir, step) ==
    IF Exists(dir[step.file]) THEN Content(dir[step.file])
    ELSE IF step.file = "runs" THEN [runs |-> << >>] ELSE EmptyDict

\* archives.json extended by the pushed list instead of replaced by it
WriteFileMerging(dir, step, value) ==
    IF step.file = "archives" /\ Exists(dir.archives)
    THEN [dir EXCEPT !.archives = File(Content(@) \o value)]
    ELSE IF step.file \in SingleFiles
    THEN [dir EXCEPT ![step.file] = File(value)]
    ELSE [dir EXCEPT ![step.file] = Put(@, step.key, value)]
\* the job directory after a write step
WriteFile(dir, step, value) ==
    IF step.file \in SingleFiles
    THEN [dir EXCEPT ![step.file] = File(value)]
    ELSE [dir EXCEPT ![step.file] = Put(@, step.key, value)]

\* ------------------------------------------------- running a handler
\* A fault is [at, mode]: the write at step `at` of the program raises an
\* I/O error at open() (mode "ioerror", the file is left as it was) or the
\* process dies just before it (mode "crash"); at = 0 is a run without fault.
NoFault == [at |-> 0, mode |-> "ioerror"]

IsPrefix(s, t) == Len(s) <= Len(t) /\ SubSeq(t, 1, Len(s)) = s

\* A step that raises inside a swallowing try block ends that block: the
\* handler resumes at the first later step outside it.
ResumeAfter(prog, i) ==
    LET outside == {k \in (i + 1)..Len(prog) : ~IsPrefix(prog[i].scope, prog[k].scope)}
    IN IF outside = {} THEN Len(prog) + 1
       ELSE CHOOSE k \in outside : \A m \in outside : k <= m

\* Runs the handler from step i to its end.  The result is the job directory
\* it leaves, how the call ended ("ok": returned normally, "error": raised to
\* the caller, "crashed": never returned) and whether one of its writes failed.
RECURSIVE Execute(_, _, _, _, _, _, _)
Execute(dir, loc, op, i, clock, fault, failed) ==
    LET prog == Program(op)
    IN IF i > Len(prog)
       THEN [dir |-> dir, status |-> "ok", write_failed |-> failed]
       ELSE LET step == prog[i]
            IN IF fault.at = i /\ step.act = "write"
               THEN IF fault.mode = "crash"
                    THEN [dir |-> dir, status |-> "crashed", write_failed |-> failed]
                    ELSE IF step.scope = << >>
                    THEN [dir |-> dir, status |-> "error", write_failed |-> TRUE]
                    ELSE Execute(dir, loc, op, ResumeAfter(prog, i), clock, fault, TRUE)
               ELSE IF step.act = "read"
               THEN Execute(dir, ReadFile(dir, step), op, i + 1, clock, fault, failed)
               ELSE Execute(WriteFile(dir, step, WriteValue(op, step, loc, clock)),
                            loc, op, i + 1, clock, fault, failed)

\* ------------------------------------------------------------- inputs
Jobs == {"j1", "j2"}
\* the job the push handlers are invoked for
PushJobs == {"j1"}
RunIds == 1..(RunCap + 1)
\* two start times: 10:00Z and 13:00+04:00 (= 09:00Z)
StartTimes == {[wall |-> 10, tz |-> "+00:00"], [wall |-> 13, tz |-> "+04:00"]}
\* the start of a run in the run-list specification: run 1 is the earliest
\* run, reported by a client in UTC (10:00Z) or by one at +04:00 (13:00+04:00
\* = 09:00Z); run r > 1 starts at (9 + r):00Z
RunStarts(run_id) ==
    IF run_id = 1
    THEN {[wall |-> 10, tz |-> "+00:00"], [wall |-> 13, tz |-> "+04:00"]}
    ELSE {[wall |-> 9 + run_id, tz |-> "+00:00"]}

\* the run_data dict push_status builds: a running run has no end yet, a
\* finished one ended one tick after its start
RunData(run_id, status, start_time) ==
    [run_id |-> run_id,
     status |-> status,
     start_time |-> Some(start_time),
     end_time |-> IF status = "running" THEN None
                  ELSE Some([start_time EXCEPT !.wall = @ + 1]),
     exit_code |-> IF status = "running" THEN None
                   ELSE IF status = "success" THEN Some(0) ELSE Some(1),
     log_lines |-> IF status = "success" THEN <<"done">> ELSE << >>,
     error_message |-> IF status = "failed" THEN Some("boom") ELSE None]

Archive(name, wall) == [name |-> name, start |-> [wall |-> wall, tz |-> ""]]
ArchiveLists == << << >>, <<Archive("a1", 8), Archive("a2", 9)>> >>

Stats1 == [total_size |-> 2048, total_csize |-> 1024, unique_size |-> 512]
RepoInfos ==
    << EmptyDict,
       [repository |-> [location |-> "/repo/a"]],
       [repository |-> [location |-> "/repo/b", label |-> "b"],
        cache |-> [stats |-> Stats1]] >>

\* repository dicts of borgmatic output
RepoDicts ==
    << EmptyDict,
       [archives |-> <<Archive("a1", 8)>>],
       [repository |-> [location |-> "/repo/a"], archives |-> << >>],
       [repository |-> [location |-> "/repo/b", label |-> "b"],
        cache |-> [stats |-> Stats1],
        archives |-> <<Archive("a1", 8), Archive("a2", 9)>>] >>

\* a single dict, or a list of two dicts
BorgmaticPayloads ==
    [i \in 1..Len(RepoDicts) |-> [is_list |-> FALSE, v |-> <<RepoDicts[i]>>]]
    \o << [is_list |-> TRUE, v |-> <<RepoDicts[2], RepoDicts[4]>>] >>

EventTypes == {"success", "failed", "start"}
Extras == << None, Some([action |-> "everything"]), Some([action |-> "step-a"]) >>
\* the info text pushed with an event: failure events carry one
InfoFor(event_type) == IF event_type = "failed" THEN Some("details") ELSE None
\* the info arguments a client sends with an event of the type: none or an
\* empty text with a success, the details with a failure
InfosFor(event_type) ==
    IF event_type = "failed" THEN {InfoFor(event_type)} ELSE {None, Some("")}

\* ----------------------------------------------- job configuration files
\* an API key an operator wrote, and the n-th key generate_api_key returned
\* (32 characters drawn with secrets.choice)
ApiKey(id, chars) == [str |-> TRUE, chars |-> chars, id |-> id]
generate_short_key(n) == [str |-> TRUE, chars |-> 8, id |-> <<"generated", n>>]
generate_api_key(n) == [str |-> TRUE, chars |-> 32, id |-> <<"generated", n>>]

\* the configuration files of the two jobs, as validation leaves them
JobFile(job_id, name, key) ==
    [job_id |-> job_id, backup_type |-> "borg", display_name |-> name,
     api_keys |-> <<key>>, tags |-> << >>]
ValidDir ==
    ("a.toml" :> File(JobFile(<<"j", "1">>, "j1", ApiKey(<<"key", 1>>, 20))
                      @@ [max_age |-> <<"1", "2", "h">>]))
    @@ ("b.toml" :> File(JobFile(<<"j", "2">>, "j2", ApiKey(<<"key", 2>>, 16))))
    @@ ("c.toml" :> Absent)
ConfigFiles == DOMAIN ValidDir

\* auth.api_tokens of the main configuration: tokens for every job
ApiTokens == {ApiKey(<<"token", 1>>, 24)}

\* AuthManager.__init__
NoCache == [api_key_to_job_mapping |-> None]
NoConfigCall ==
    [call |-> "none", file |-> "", order |-> << >>, before |-> ValidDir,
     raised |-> FALSE, errors |-> << >>, configs |-> EmptyDict,
     modified |-> FALSE, token |-> None, job |-> "", accepted |-> FALSE,
     cache_before |-> NoCache]

\* --------------------------------------------------------------- state
NoOp == [kind |-> "none", job |-> "", t0 |-> 0, args |-> << >>]

VARIABLES
    data_dir,      \* job id -> the files of the job's directory
    clock,         \* the server clock
    uuid_count,    \* number of event ids generated so far
    nops,          \* number of handler invocations so far
    last,          \* the last invocation: [op, status, write_failed, before,
                   \*   repeat]: before is the job directory it started
                   \*   from, repeat tells that it had the kind and the
                   \*   arguments of the invocation before it
    run_calls,     \* job id -> run id -> the statuses of the last two
                   \*   store_backup_run calls for it, oldest first
    procs,         \* server process -> the invocation it runs: [op, pc, loc,
                   \*   log, stale, open, overlapped]: pc is the step it is
                   \*   at (0: none), loc the content its last read loaded,
                   \*   log the steps it has performed; stale: another
                   \*   process wrote job_summary.json since it read it;
                   \*   open: it has opened job_summary.json for writing and
                   \*   not written yet; overlapped: another process wrote
                   \*   the file since it opened it
    summary_write, \* the last write of job_summary.json by a server
                   \*   process: [proc, op, stale, before, after, good]:
                   \*   before is the last JSON document written to the file
                   \*   before this write, after what this write left, good
                   \*   the last JSON document written
    reply,         \* the last request answered at the HTTP routes and its
                   \*   response: [query, job, args, payload, now, none, v,
                   \*   http, detail]: none and v are what the storage call
                   \*   returned (none: it returned None or raised, v: the
                   \*   returned list, or the one returned object, each
                   \*   object a record), http and detail
                   \*   the status code and the detail of the response
    config_dir,    \* file name -> the job configuration file of that name
    key_count,     \* number of API keys generated so far
    auth_manager,  \* the AuthManager of the process: its cached mapping of
                   \*   API keys to job ids, None until the first check
    config_call    \* the last call of the configuration layer: [call,
                   \*   file, order, before, raised, errors, configs,
                   \*   modified, token, job, accepted, cache_before]:
                   \*   order is the order glob listed the files in, before
                   \*   the directory the call started from, errors the
                   \*   lines of the error it raised, configs what it
                   \*   returned, accepted the answer of a token check

vars == <<data_dir, clock, uuid_count, nops, last, run_calls, procs, summary_write, reply,
          config_dir, key_count, auth_manager, config_call>>
conf_vars == <<config_dir, key_count, auth_manager, config_call>>

\* the configuration of the two jobs in place, no token checked yet
ConfigIdle ==
    /\ config_dir = ValidDir
    /\ key_count = 0
    /\ auth_manager = NoCache
    /\ config_call = NoConfigCall

Procs == {1, 2}
Idle == [op |-> NoOp, pc |-> 0, loc |-> EmptyDict, log |-> << >>, stale |-> FALSE,
         open |-> FALSE, overlapped |-> FALSE]
NoWrite == [proc |-> 0, op |-> NoOp, stale |-> FALSE, before |-> EmptyDict,
            after |-> EmptyDict, good |-> EmptyDict]
\* the parameters of a request, those it does not take at their defaults
NoArgs == [offset |-> 0, limit |-> 0, sort_by |-> "", sort_order |-> "",
           id |-> 0, event |-> << >>, label |-> None, text |-> << >>,
           stamp |-> None]
NoPayload == [is_list |-> TRUE, v |-> << >>]
NoReply == [query |-> "none", job |-> "", args |-> NoArgs, payload |-> NoPayload,
            now |-> 0, none |-> TRUE, v |-> << >>, http |-> 0, detail |-> ""]

\* two invocations of the same handler for the same job with equal arguments
SameCall(a, b) ==
    /\ a.kind = b.kind
    /\ a.kind # "none"
    /\ a.job = b.job
    /\ a.kind \in {"borgmatic_info", "borgmatic_rinfo"} => a.args.data.is_list = b.args.data.is_list
    /\ a.kind = "event" =>
          /\ a.args.event_type = b.args.event_type
          /\ a.args.info = b.args.info
          /\ a.args.extra = b.args.extra
    /\ a.kind # "event" => a.args = b.args

Init ==
    /\ data_dir = [j \in Jobs |-> EmptyJobDir]
    /\ clock = StartClock
    /\ uuid_count = 0
    /\ nops = 0
    /\ last = [op |-> NoOp, status |-> "none", write_failed |-> FALSE,
               before |-> EmptyJobDir, repeat |-> FALSE]
    /\ run_calls = [j \in Jobs |-> [r \in RunIds |-> << >>]]
    /\ procs = [p \in Procs |-> Idle]
    /\ summary_write = NoWrite
    /\ reply = NoReply
    /\ ConfigIdle

\* a storage that keeps the files of every job in one directory
job_dir_shared(job_id) == "j1"
\* job_dir = self.data_dir / job_id: the directory the handlers of a job
\* read and write, one per job_id
job_dir(job_id) == job_id

\* One invocation of a push handler, from its first statement to its return
\* (or to the fault that ends it).
Call(op, fault) ==
    LET res == Execute(data_dir[job_dir(op.job)], EmptyDict, op, 1, clock, fault, FALSE)
    IN /\ data_dir' = [data_dir EXCEPT ![job_dir(op.job)] = res.dir]
       /\ clock' = clock + 1
       /\ nops' = nops + 1
       /\ last' = [op |-> op, status |-> res.status, write_failed |-> res.write_failed,
                   before |-> data_dir[op.job], repeat |-> SameCall(last.op, op)]
       /\ uuid_count' = IF op.kind = "event" THEN uuid_count + 1 ELSE uuid_count
       /\ run_calls' = IF op.kind = "run"
                       THEN [run_calls EXCEPT ![op.job][op.args.run_id] =
                                IF @ = << >> THEN <<op.args.status>>
                                ELSE <<@[Len(@)], op.args.status>>]
                       ELSE run_calls
       /\ UNCHANGED <<procs, summary_write, conf_vars>>

\* a call of a push handler by a caller other than the HTTP routes below
Invoke(op, fault) == Call(op, fault) /\ UNCHANGED reply

Op(kind, job, args) == [kind |-> kind, job |-> job, t0 |-> clock, args |-> args]

StoreRun(job, run_data, fault) == Invoke(Op("run", job, run_data), fault)

StoreBorgInfo(job, repository_info, archive_list, fault) ==
    Invoke(Op("borg_info", job,
              [repository_info |-> repository_info, archive_list |-> archive_list]),
           fault)

StoreBorgmaticInfo(job, info_data, fault) ==
    Invoke(Op("borgmatic_info", job, [data |-> info_data]), fault)

StoreBorgmaticRinfo(job, rinfo_data, fault) ==
    Invoke(Op("borgmatic_rinfo", job, [data |-> rinfo_data]), fault)

\* the event id is the start time and a fresh random suffix
StoreEvent(job, event_type, info, extra, fault) ==
    Invoke(Op("event", job,
              [event_type |-> event_type, message |-> "m", info |-> info,
               extra |-> extra, event_id |-> <<clock, uuid_count + 1>>]),
           fault)

\* ---------------------------------------- ingest, one call at a time
PushRun ==
    /\ nops < MaxOps
    /\ \E j \in PushJobs, s \in {"success", "failed"}, t \in StartTimes :
          StoreRun(j, RunData(1, s, t), NoFault)
PushBorgInfo ==
    /\ nops < MaxOps
    /\ \E j \in PushJobs, i \in 1..Len(RepoInfos), k \in 1..Len(ArchiveLists) :
          StoreBorgInfo(j, RepoInfos[i], ArchiveLists[k], NoFault)
PushBorgmaticInfo ==
    /\ nops < MaxOps
    /\ \E j \in PushJobs, i \in 1..Len(BorgmaticPayloads) :
          StoreBorgmaticInfo(j, BorgmaticPayloads[i], NoFault)
PushBorgmaticRinfo ==
    /\ nops < MaxOps
    /\ \E j \in PushJobs, i \in 1..Len(BorgmaticPayloads) :
          StoreBorgmaticRinfo(j, BorgmaticPayloads[i], NoFault)
PushEvent ==
    /\ nops < MaxOps
    /\ \E j \in PushJobs, ty \in EventTypes, x \in 1..Len(Extras) :
          StoreEvent(j, ty, InfoFor(ty), Extras[x], NoFault)

Next ==
    \/ PushRun
    \/ PushBorgInfo
    \/ PushBorgmaticInfo
    \/ PushBorgmaticRinfo
    \/ PushEvent

Spec == Init /\ [][Next]_vars

\* ------------------------------------------- the run list, one call at a time
RunPush ==
    /\ nops < MaxRunOps
    /\ \E j \in PushJobs, r \in RunIds, s \in {"running", "success"} :
          \E t \in RunStarts(r) : StoreRun(j, RunData(r, s, t), NoFault)
\* another ingest operation between two run pushes
RunOther ==
    /\ nops < MaxRunOps
    /\ last.op.kind = "run"
    /\ \E j \in PushJobs : StoreBorgInfo(j, RepoInfos[2], ArchiveLists[2], NoFault)

RunNext ==
    \/ RunPush
    \/ RunOther

RunSpec == Init /\ [][RunNext]_vars

\* ------------------------------------------- ingest for two jobs
\* Every push handler, called one at a time for either job: a successful
\* run with a log line, snapshots with archives and repository info, a
\* failed event with its info text.
FrameStoreRun ==
    /\ nops < MaxFrameOps
    /\ \E j \in Jobs :
          StoreRun(j, RunData(1, "success", [wall |-> 10, tz |-> "+00:00"]), NoFault)
FrameStoreBorgInfo ==
    /\ nops < MaxFrameOps
    /\ \E j \in Jobs : StoreBorgInfo(j, RepoInfos[3], ArchiveLists[2], NoFault)
FrameStoreBorgmaticInfo ==
    /\ nops < MaxFrameOps
    /\ \E j \in Jobs :
          StoreBorgmaticInfo(j, BorgmaticPayloads[Len(BorgmaticPayloads)], NoFault)
FrameStoreBorgmaticRinfo ==
    /\ nops < MaxFrameOps
    /\ \E j \in Jobs :
          StoreBorgmaticRinfo(j, BorgmaticPayloads[Len(BorgmaticPayloads)], NoFault)
FrameStoreEvent ==
    /\ nops < MaxFrameOps
    /\ \E j \in Jobs :
          StoreEvent(j, "failed", InfoFor("failed"), Some([action |-> "everything"]),
                     NoFault)

FrameNext ==
    \/ FrameStoreRun
    \/ FrameStoreBorgInfo
    \/ FrameStoreBorgmaticInfo
    \/ FrameStoreBorgmaticRinfo
    \/ FrameStoreEvent

FrameSpec == Init /\ [][FrameNext]_vars

\* ------------------------------------------- one call at a time, with faults
\* the faults an invocation can meet: none, or one at one of its writes
Faults(op) ==
    {NoFault} \cup
    {[at |-> i, mode |-> m] :
        i \in {k \in 1..Len(Program(op)) : Program(op)[k].act = "write"},
        m \in {"ioerror", "crash"}}

FaultRun ==
    /\ nops < MaxFaultOps
    /\ \E j \in PushJobs, t \in StartTimes :
          \E f \in Faults(Op("run", j, RunData(1, "success", t))) :
              StoreRun(j, RunData(1, "success", t), f)
FaultBorgInfo ==
    /\ nops < MaxFaultOps
    /\ \E j \in PushJobs, k \in 1..Len(ArchiveLists) :
          \E f \in Faults(Op("borg_info", j, [repository_info |-> RepoInfos[3],
                                               archive_list |-> ArchiveLists[k]])) :
              StoreBorgInfo(j, RepoInfos[3], ArchiveLists[k], f)
FaultBorgmaticInfo ==
    /\ nops < MaxFaultOps
    /\ \E j \in PushJobs :
          \E f \in Faults(Op("borgmatic_info", j, [data |-> BorgmaticPayloads[4]])) :
              StoreBorgmaticInfo(j, BorgmaticPayloads[4], f)
FaultBorgmaticRinfo ==
    /\ nops < MaxFaultOps
    /\ \E j \in PushJobs :
          \E f \in Faults(Op("borgmatic_rinfo", j, [data |-> BorgmaticPayloads[5]])) :
              StoreBorgmaticRinfo(j, BorgmaticPayloads[5], f)
FaultEvent ==
    /\ nops < MaxFaultOps
    /\ \E j \in PushJobs, ty \in {"failed", "start"} :
          \E f \in Faults(Op("event", j,
                    [event_type |-> ty, message |-> "m", info |-> InfoFor(ty),
                     extra |-> Extras[2], event_id |-> <<clock, uuid_count + 1>>])) :
              StoreEvent(j, ty, InfoFor(ty), Extras[2], f)

FaultNext ==
    \/ FaultRun
    \/ FaultBorgInfo
    \/ FaultBorgmaticInfo
    \/ FaultBorgmaticRinfo
    \/ FaultEvent

FaultSpec == Init /\ [][FaultNext]_vars

\* ------------------------------------- two server processes, step by step
\* A server process runs a handler from its first statement to its return
\* (the routes are coroutines that never yield inside the storage calls);
\* handlers of two server processes on one data directory interleave at
\* their file operations.  Of the files, job_summary.json is written in two
\* steps, the open that empties it and the write; the others in one.

\* the invocations the two processes are given
ConcOps ==
    {Op("run", "j1", RunData(1, "success", [wall |-> 10, tz |-> "+00:00"])),
     Op("run", "j1", RunData(2, "success", [wall |-> 11, tz |-> "+00:00"])),
     Op("borg_info", "j1",
        [repository_info |-> RepoInfos[3], archive_list |-> ArchiveLists[2]]),
     Op("borgmatic_info", "j1", [data |-> BorgmaticPayloads[4]]),
     Op("event", "j1",
        [event_type |-> "failed", message |-> "m", info |-> InfoFor("failed"),
         extra |-> Extras[2], event_id |-> <<clock, uuid_count + 1>>])}

\* the process moves past the step it performed, and is done after the last
Advance(proc, entry) ==
    [proc EXCEPT !.pc = IF @ = Len(Program(proc.op)) THEN 0 ELSE @ + 1,
                 !.log = Append(@, entry)]

\* the process leaves the swallowing try block its failed step is in
Swallow(proc, entry) ==
    LET k == ResumeAfter(Program(proc.op), proc.pc)
    IN [proc EXCEPT !.pc = IF k > Len(Program(proc.op)) THEN 0 ELSE k,
                    !.log = Append(@, entry)]

\* a request arrives at a process that serves none
ConcBegin ==
    /\ nops < MaxConcOps
    /\ \E p \in Procs, op \in ConcOps :
          /\ procs[p].pc = 0
          /\ procs' = [procs EXCEPT ![p] = [Idle EXCEPT !.op = op, !.pc = 1]]
          /\ uuid_count' = IF op.kind = "event" THEN uuid_count + 1 ELSE uuid_count
    /\ nops' = nops + 1
    /\ clock' = clock + 1
    /\ UNCHANGED <<data_dir, last, run_calls, summary_write, reply, conf_vars>>

\* a process loads the file of its next step: json.load raises on a file
\* that holds no JSON document
ConcRead ==
    /\ \E p \in Procs :
          /\ procs[p].pc > 0
          /\ LET proc == procs[p]
                 step == Program(proc.op)[proc.pc]
                 file == data_dir[proc.op.job][step.file]
                 read == Advance([proc EXCEPT
                            !.loc = ReadFile(data_dir[proc.op.job], step),
                            !.stale = IF step.file = "job_summary" THEN FALSE ELSE @],
                            [act |-> "read", file |-> step.file])
             IN /\ step.act = "read"
                /\ procs' = [procs EXCEPT ![p] =
                      IF Exists(file) /\ Content(file) = Garbled
                      THEN Swallow(proc, [act |-> "read_failed", file |-> step.file])
                      ELSE read]
    /\ clock' = clock + 1
    /\ UNCHANGED <<data_dir, uuid_count, nops, last, run_calls, summary_write, reply, conf_vars>>

\* open(summary_file, 'w'): job_summary.json is emptied before json.dump
\* writes to it
ConcOpen ==
    /\ \E p \in Procs :
          /\ procs[p].pc > 0
          /\ ~procs[p].open
          /\ LET step == Program(procs[p].op)[procs[p].pc]
             IN step.act = "write" /\ step.file = "job_summary"
          /\ data_dir' = [data_dir EXCEPT ![procs[p].op.job].job_summary = File(Garbled)]
          /\ procs' = [q \in Procs |->
                IF q = p THEN [procs[q] EXCEPT !.open = TRUE]
                ELSE IF procs[q].op.job = procs[p].op.job
                THEN [procs[q] EXCEPT !.overlapped = FALSE]
                ELSE procs[q]]
    /\ clock' = clock + 1
    /\ UNCHANGED <<uuid_count, nops, last, run_calls, summary_write, reply, conf_vars>>

\* a process writes the file of its next step.  job_summary.json is written
\* from the start of the file it opened: over a document another process
\* wrote in the meantime, the longer of the two leaves its tail behind
\* (document lengths are not modelled: the write leaves its own document, or
\* one followed by the other's tail, torn).
ConcWrite ==
    /\ \E p \in Procs, torn \in BOOLEAN :
          /\ procs[p].pc > 0
          /\ LET proc == procs[p]
                 job == proc.op.job
                 step == Program(proc.op)[proc.pc]
                 value == IF torn THEN Garbled
                          ELSE WriteValue(proc.op, step, proc.loc, clock)
                 dir == WriteFile(data_dir[job], step, value)
                 summary == step.file = "job_summary"
             IN /\ step.act = "write"
                /\ summary => proc.open
                /\ torn => summary /\ proc.overlapped
                /\ data_dir' = [data_dir EXCEPT ![job] = dir]
                /\ procs' = [q \in Procs |->
                      IF q = p
                      THEN Advance([proc EXCEPT !.open = FALSE, !.overlapped = FALSE],
                                   [act |-> "write", file |-> step.file])
                      ELSE IF summary /\ procs[q].op.job = job
                      THEN [procs[q] EXCEPT !.stale = TRUE, !.overlapped = procs[q].open]
                      ELSE procs[q]]
                /\ summary_write' =
                      IF summary
                      THEN [proc |-> p, op |-> proc.op, stale |-> proc.stale,
                            before |-> summary_write.good,
                            after |-> value,
                            good |-> IF torn THEN summary_write.good ELSE value]
                      ELSE summary_write
    /\ clock' = clock + 1
    /\ UNCHANGED <<uuid_count, nops, last, run_calls, reply, conf_vars>>

ConcNext ==
    \/ ConcBegin
    \/ ConcRead
    \/ ConcOpen
    \/ ConcWrite

ConcSpec == Init /\ [][ConcNext]_vars

\* ------------------------------------------------------ schedule status
\* A str the code matches or parses is the sequence of its characters.
Digits == <<"0", "1", "2", "3", "4", "5", "6", "7", "8", "9">>
IsDigit(c) == \E i \in 1..Len(Digits) : Digits[i] = c
DigitValue(c) == (CHOOSE i \in 1..Len(Digits) : Digits[i] = c) - 1

\* int(value) of a str of digits
RECURSIVE int(_)
int(value) ==
    IF value = << >> THEN 0
    ELSE 10 * int(SubSeq(value, 1, Len(value) - 1)) + DigitValue(value[Len(value)])

\* MAX_AGE_PATTERN.match(max_age) with MAX_AGE_PATTERN = ^(\d+)([mhd])$ :
\* the two groups of the match, None when there is none.  Without
\* re.MULTILINE `$` matches at the end of the string and also just before a
\* newline that ends it.
max_age_match(max_age) ==
    LET n == Len(max_age)
        matched == IF n > 0 /\ max_age[n] = "\n" THEN SubSeq(max_age, 1, n - 1)
                   ELSE max_age
        m == Len(matched)
    IN IF /\ m >= 2
          /\ \A i \in 1..(m - 1) : IsDigit(matched[i])
          /\ matched[m] \in {"m", "h", "d"}
       THEN Some([value |-> SubSeq(matched, 1, m - 1), unit |-> matched[m]])
       ELSE None

\* ConfigValidator.parse_max_age_to_seconds: [ok, seconds], ok FALSE when it
\* raises ValueError
parse_max_age_to_seconds(max_age) ==
    LET match == max_age_match(max_age)
    IN IF IsNone(match) THEN [ok |-> FALSE, seconds |-> 0]
       ELSE LET value == int(match[1].value)
                unit == match[1].unit
            IN [ok |-> TRUE,
                seconds |-> CASE unit = "m" -> value * 60
                              [] unit = "h" -> value * 3600
                              [] unit = "d" -> value * 86400]

\* An ISO string that holds no date-time has the suffix "?" in place of a
\* UTC offset.  datetime.fromisoformat: the datetime, None when it raises
\* ValueError.
fromisoformat(date_string) ==
    IF date_string.tz = "?" THEN None ELSE Some(date_string)

\* a naive datetime and an aware one: comparing them raises TypeError
Aware(t) == t.tz # ""
Comparable(a, b) == Aware(a) = Aware(b)

\* ConfigValidator.is_backup_overdue at server time `now`.  One clock tick is
\* an hour; cutoff_time is the naive datetime.now() less max_age, and both
\* the ValueError of the parse and the TypeError of the comparison with an
\* aware last_backup end in `return False`.
is_backup_overdue(last_backup, max_age, now) ==
    LET parsed == parse_max_age_to_seconds(max_age)
    IN IF ~parsed.ok THEN FALSE
       ELSE IF ~Comparable(last_backup, Now(now)) THEN FALSE
       ELSE last_backup.wall * 3600 < now * 3600 - parsed.seconds

\* DataStorage._calculate_schedule_status; last_backup_str is an optional str
calculate_schedule_status(last_backup_str, max_age, now) ==
    IF IsNone(last_backup_str) THEN "unknown"
    ELSE LET last_backup == fromisoformat(last_backup_str[1])
         IN IF IsNone(last_backup) THEN "unknown"
            ELSE IF is_backup_overdue(last_backup[1], max_age, now) THEN "overdue"
            ELSE "on-time"

\* ------------------------- the schedule functions, applied to their inputs
\* everything but the reply
store_vars == <<data_dir, clock, uuid_count, nops, last, run_calls, procs, summary_write,
                conf_vars>>

\* the characters of the strings tried as max_age
Alphabet == {"2", "4", "h", "d", "m", "x", "-", " ", "\n"}
RECURSIVE TextsUpTo(_)
TextsUpTo(n) ==
    IF n = 0 THEN {<< >>}
    ELSE TextsUpTo(n - 1) \cup {Append(t, c) : t \in TextsUpTo(n - 1), c \in Alphabet}
Texts == TextsUpTo(MaxTextLen)
\* UTC-offset suffixes of stored ISO strings, "?" for a string that is none
Suffixes == {"", "+00:00", "+04:00", "?"}
\* the last-backup strings tried: none, or one written `age` hours before now
Stamps(now) ==
    {None} \cup {Some([wall |-> now - age, tz |-> z]) :
                    age \in {0, 1, 24, 25, 49}, z \in Suffixes}

AgeInit ==
    /\ data_dir = [j \in Jobs |-> EmptyJobDir]
    /\ clock = StartClock
    /\ uuid_count = 0
    /\ nops = 0
    /\ last = [op |-> NoOp, status |-> "none", write_failed |-> FALSE,
               before |-> EmptyJobDir, repeat |-> FALSE]
    /\ run_calls = [j \in Jobs |-> [r \in RunIds |-> << >>]]
    /\ procs = [p \in Procs |-> Idle]
    /\ summary_write = NoWrite
    /\ ConfigIdle
    /\ \E text \in Texts, stamp \in Stamps(StartClock) :
          reply = [NoReply EXCEPT !.query = "input", !.now = StartClock,
                                  !.args.text = text, !.args.stamp = stamp]

ParseMaxAge ==
    /\ reply.query = "input"
    /\ LET parsed == parse_max_age_to_seconds(reply.args.text)
       IN reply' = [reply EXCEPT !.query = "parse_max_age",
                                 !.none = ~parsed.ok,
                                 !.v = IF parsed.ok THEN <<[seconds |-> parsed.seconds]>>
                                       ELSE << >>]
    /\ UNCHANGED store_vars

CalculateScheduleStatus ==
    /\ reply.query = "input"
    /\ reply' = [reply EXCEPT
                    !.query = "schedule_status",
                    !.none = FALSE,
                    !.v = <<[scheduleStatus |->
                               calculate_schedule_status(reply.args.stamp,
                                                         reply.args.text, reply.now)]>>]
    /\ UNCHANGED store_vars

AgeNext ==
    \/ ParseMaxAge
    \/ CalculateScheduleStatus

AgeSpec == AgeInit /\ [][AgeNext]_vars

\* ------------------------------------------------------------- queries
\* The result of a storage query is [none, v]: none tells that it returned
\* None, v is the list it returned, or holds the one object it returned.
ReturnNone == [none |-> TRUE, v |-> << >>]
Return(object) == [none |-> FALSE, v |-> <<object>>]
ReturnList(list) == [none |-> FALSE, v |-> list]

\* json.load raises on it
Loads(file) == ~(Exists(file) /\ Content(file) = Garbled)

\* archive.get('start') or archive.get('time')
StartOrTime(archive) ==
    IF Has(archive, "start") THEN Some(archive["start"])
    ELSE IF Has(archive, "time") THEN Some(archive["time"])
    ELSE None

\* the loop of _get_latest_archive_date: an entry whose date does not parse
\* (ValueError) or does not compare with latest_date (TypeError) is passed over
RECURSIVE latest_loop(_, _)
latest_loop(latest_date, archives_data) ==
    IF archives_data = << >> THEN latest_date
    ELSE LET archive_date_str == StartOrTime(Head(archives_data))
             archive_date == IF IsNone(archive_date_str) THEN None
                             ELSE fromisoformat(archive_date_str[1])
             next == IF IsNone(archive_date) THEN latest_date
                     ELSE IF IsNone(latest_date) THEN archive_date
                     ELSE IF ~Comparable(archive_date[1], latest_date[1]) THEN latest_date
                     ELSE IF Instant(archive_date[1]) > Instant(latest_date[1])
                     THEN archive_date
                     ELSE latest_date
         IN latest_loop(next, Tail(archives_data))

\* DataStorage._get_latest_archive_date: an optional ISO string
get_latest_archive_date(dir) ==
    IF ~Exists(dir.archives) THEN None
    ELSE latest_loop(None, Content(dir.archives))

\* dict.get(key) read as a truth value and used when true
GetTrue(d, k) == IF Has(d, k) THEN Some(d[k]) ELSE None

\* The body of the try block of get_all_jobs (lines 95-139), which
\* get_job_details repeats (157-205): [raised, job].  schedule_time is the
\* local backup_time_for_schedule; the relative-time strings are left out.
load_job(job_id, config, dir, now) ==
    IF ~Loads(dir.job_summary) THEN [raised |-> TRUE, job |-> EmptyDict]
    ELSE
    LET cache_data == SummaryOf(dir)
        max_age == Get(config, "max_age", <<"2", "4", "h">>)
        latest_archive_date == get_latest_archive_date(dir)
        backup_time_for_schedule ==
            IF ~IsNone(latest_archive_date) THEN latest_archive_date
            ELSE IF ~IsNone(GetTrue(cache_data, "last_successful_backup"))
            THEN GetTrue(cache_data, "last_successful_backup")
            ELSE GetTrue(cache_data, "last_backup")
        last_backup ==
            IF ~IsNone(latest_archive_date) THEN fromisoformat(latest_archive_date[1])
            ELSE IF ~IsNone(GetTrue(cache_data, "last_backup"))
            THEN fromisoformat(cache_data["last_backup"])
            ELSE None
        last_successful_backup ==
            IF ~IsNone(GetTrue(cache_data, "last_successful_backup"))
            THEN fromisoformat(cache_data["last_successful_backup"])
            ELSE None
    IN [raised |-> FALSE,
        job |-> [jobId |-> job_id,
                 name |-> Get(config, "display_name", job_id),
                 status |-> Get(cache_data, "status", "no-data"),
                 scheduleStatus |->
                     calculate_schedule_status(backup_time_for_schedule, max_age, now),
                 schedule_time |-> backup_time_for_schedule,
                 lastBackup |-> last_backup,
                 lastSuccessfulBackup |-> last_successful_backup,
                 maxAge |-> max_age,
                 tags |-> Get(config, "tags", << >>),
                 stats |-> [archiveCount |-> Get(cache_data, "archive_count", 0),
                            fullSize |-> Get(cache_data, "full_size", ZeroB),
                            compressedSize |-> Get(cache_data, "compressed_size", ZeroB),
                            deduplicatedSize |-> Get(cache_data, "deduplicated_size", ZeroB),
                            compressionRatio |-> Get(cache_data, "compression_ratio", ZeroPct)]]]

\* the directory of a job, an empty one for a job that has none
DirOf(dirs, job_id) == IF job_id \in DOMAIN dirs THEN dirs[job_id] ELSE EmptyJobDir

\* DataStorage.get_all_jobs: job_configs is the validated configuration and
\* by_name its job ids in the order of their display names; a job whose
\* loading raises is logged and left out
get_all_jobs(dirs, job_configs, by_name, now) ==
    LET loaded == [i \in 1..Len(by_name) |->
                      load_job(by_name[i], job_configs[by_name[i]],
                               DirOf(dirs, by_name[i]), now)]
        jobs == SelectSeq(loaded, LAMBDA l : ~l.raised)
    IN ReturnList([i \in 1..Len(jobs) |-> jobs[i].job])

\* a loading of the details that takes lastBackup from job_summary.json
\* alone
load_job_details_from_summary(job_id, config, dir, now) ==
    IF ~Loads(dir.job_summary) THEN [raised |-> TRUE, job |-> EmptyDict]
    ELSE
    LET cache_data == SummaryOf(dir)
        max_age == Get(config, "max_age", <<"2", "4", "h">>)
        latest_archive_date == get_latest_archive_date(dir)
        backup_time_for_schedule ==
            IF ~IsNone(latest_archive_date) THEN latest_archive_date
            ELSE IF ~IsNone(GetTrue(cache_data, "last_successful_backup"))
            THEN GetTrue(cache_data, "last_successful_backup")
            ELSE GetTrue(cache_data, "last_backup")
        last_backup ==
            IF ~IsNone(GetTrue(cache_data, "last_backup"))
            THEN fromisoformat(cache_data["last_backup"])
            ELSE None
        last_successful_backup ==
            IF ~IsNone(GetTrue(cache_data, "last_successful_backup"))
            THEN fromisoformat(cache_data["last_successful_backup"])
            ELSE None
    IN [raised |-> FALSE,
        job |-> [jobId |-> job_id,
                 name |-> Get(config, "display_name", job_id),
                 status |-> Get(cache_data, "status", "no-data"),
                 scheduleStatus |->
                     calculate_schedule_status(backup_time_for_schedule, max_age, now),
                 schedule_time |-> backup_time_for_schedule,
                 lastBackup |-> last_backup,
                 lastSuccessfulBackup |-> last_successful_backup,
                 tags |-> Get(config, "tags", << >>),
                 description |-> GetTrue(config, "description"),
                 backupType |-> Get(config, "backup_type", "borgmatic"),
                 maxAge |-> max_age,
                 stats |-> [archiveCount |-> Get(cache_data, "archive_count", 0),
                            fullSize |-> Get(cache_data, "full_size", ZeroB),
                            compressedSize |-> Get(cache_data, "compressed_size", ZeroB),
                            deduplicatedSize |-> Get(cache_data, "deduplicated_size", ZeroB),
                            compressionRatio |-> Get(cache_data, "compression_ratio", ZeroPct)],
                 config |-> config]]

\* The body of the try block of get_job_details (lines 157-205): [raised,
\* job], as load_job
load_job_details(job_id, config, dir, now) ==
    IF ~Loads(dir.job_summary) THEN [raised |-> TRUE, job |-> EmptyDict]
    ELSE
    LET cache_data == SummaryOf(dir)
        max_age == Get(config, "max_age", <<"2", "4", "h">>)
        latest_archive_date == get_latest_archive_date(dir)
        backup_time_for_schedule ==
            IF ~IsNone(latest_archive_date) THEN latest_archive_date
            ELSE IF ~IsNone(GetTrue(cache_data, "last_successful_backup"))
            THEN GetTrue(cache_data, "last_successful_backup")
            ELSE GetTrue(cache_data, "last_backup")
        last_backup ==
            IF ~IsNone(latest_archive_date) THEN fromisoformat(latest_archive_date[1])
            ELSE IF ~IsNone(GetTrue(cache_data, "last_backup"))
            THEN fromisoformat(cache_data["last_backup"])
            ELSE None
        last_successful_backup ==
            IF ~IsNone(GetTrue(cache_data, "last_successful_backup"))
            THEN fromisoformat(cache_data["last_successful_backup"])
            ELSE None
    IN [raised |-> FALSE,
        job |-> [jobId |-> job_id,
                 name |-> Get(config, "display_name", job_id),
                 status |-> Get(cache_data, "status", "no-data"),
                 scheduleStatus |->
                     calculate_schedule_status(backup_time_for_schedule, max_age, now),
                 schedule_time |-> backup_time_for_schedule,
                 lastBackup |-> last_backup,
                 lastSuccessfulBackup |-> last_successful_backup,
                 tags |-> Get(config, "tags", << >>),
                 description |-> GetTrue(config, "description"),
                 backupType |-> Get(config, "backup_type", "borgmatic"),
                 maxAge |-> max_age,
                 stats |-> [archiveCount |-> Get(cache_data, "archive_count", 0),
                            fullSize |-> Get(cache_data, "full_size", ZeroB),
                            compressedSize |-> Get(cache_data, "compressed_size", ZeroB),
                            deduplicatedSize |-> Get(cache_data, "deduplicated_size", ZeroB),
                            compressionRatio |-> Get(cache_data, "compression_ratio", ZeroPct)],
                 config |-> config]]

\* DataStorage.get_job_details
get_job_details(dirs, job_configs, job_id, now) ==
    IF job_id \notin DOMAIN job_configs THEN ReturnNone
    ELSE LET l == load_job_details(job_id, job_configs[job_id], DirOf(dirs, job_id), now)
         IN IF l.raised THEN ReturnNone ELSE Return(l.job)

\* the validated configuration mapping get_all_job_configs returns: job j1
\* with a max_age of 12 hours, job j2 without one
JobConfigs ==
    ("j1" :> [display_name |-> "j1", max_age |-> <<"1", "2", "h">>,
              tags |-> <<"nightly">>])
    @@ ("j2" :> [display_name |-> "j2"])
\* the configured job ids in the order of their display names
JobsByName == <<"j1", "j2">>

\* --------------------------------------------------------- listings
\* A sort key is [rank, value], compared by rank and then by value:
\* datetime.min has rank 0, every other key rank 1.
KeyLess(a, b) == a.rank < b.rank \/ (a.rank = b.rank /\ a.value < b.value)

\* the archive names of the inputs in the order of str
ArchiveNames == <<"a1", "a2", "a3">>
NameRank(name) == CHOOSE i \in 1..Len(ArchiveNames) : ArchiveNames[i] = name

SizeField(sort_by) ==
    CASE sort_by = "originalSize" -> "original_size"
      [] sort_by = "compressedSize" -> "compressed_size"
      [] sort_by = "deduplicatedSize" -> "deduplicated_size"

\* sort_key of get_job_archives: [raised, aware, key]
sort_key(archive, sort_by) ==
    IF sort_by = "date"
    THEN IF ~Has(archive, "start")
         THEN [raised |-> FALSE, aware |-> FALSE, key |-> [rank |-> 0, value |-> 0]]
         ELSE LET start == fromisoformat(archive["start"])
              IN IF IsNone(start)
                 THEN [raised |-> TRUE, aware |-> FALSE, key |-> [rank |-> 0, value |-> 0]]
                 ELSE [raised |-> FALSE, aware |-> Aware(start[1]),
                       key |-> [rank |-> 1, value |-> Instant(start[1])]]
    ELSE IF sort_by = "name"
    THEN [raised |-> FALSE, aware |-> FALSE,
          key |-> [rank |-> 1, value |-> NameRank(archive["name"])]]
    ELSE [raised |-> FALSE, aware |-> FALSE,
          key |-> [rank |-> 1,
                   value |-> IF Has(archive, "stats")
                             THEN Get(archive["stats"], SizeField(sort_by), 0)
                             ELSE Get(archive, SizeField(sort_by), 0)]]

\* one insertion of the stable sort of list.sort(key=..., reverse=...): the
\* entry goes before the first one that sorts after it
InsertByKey(sorted, e, reverse) ==
    LET later == {i \in 1..Len(sorted) :
                     IF reverse THEN KeyLess(sorted[i].key, e.key)
                     ELSE KeyLess(e.key, sorted[i].key)}
        pos == IF later = {} THEN Len(sorted) + 1
               ELSE CHOOSE i \in later : \A k \in later : i <= k
    IN SubSeq(sorted, 1, pos - 1) \o <<e>> \o SubSeq(sorted, pos, Len(sorted))

RECURSIVE SortByKey(_, _, _)
SortByKey(sorted, rest, reverse) ==
    IF rest = << >> THEN sorted
    ELSE SortByKey(InsertByKey(sorted, Head(rest), reverse), Tail(rest), reverse)

\* list[offset:offset + limit]
Slice(list, offset, limit) ==
    SubSeq(list, offset + 1,
           IF offset + limit < Len(list) THEN offset + limit ELSE Len(list))

\* the size strings of an Archive: "n/a" where the entry has no such number
NotAvailable == [tenths |-> 0, unit |-> "n/a", plain |-> TRUE]
SizeText(archive, field) ==
    IF Has(archive, "stats")
    THEN IF Has(archive["stats"], field) THEN format_size(archive["stats"][field])
         ELSE NotAvailable
    ELSE IF Has(archive, field) THEN format_size(archive[field])
    ELSE NotAvailable

\* the Archive object built for an entry of the page
ArchiveItem(archive, now) ==
    [name |-> archive["name"],
     createdAt |-> IF Has(archive, "start") THEN fromisoformat(archive["start"])[1]
                   ELSE Now(now),
     originalSize |-> SizeText(archive, "original_size"),
     compressedSize |-> SizeText(archive, "compressed_size"),
     deduplicatedSize |-> SizeText(archive, "deduplicated_size")]

\* the page dict of the paginated queries
Page(items, total, offset, limit) ==
    [items |-> items, total |-> total, hasMore |-> offset + limit < total,
     nextOffset |-> IF offset + limit < total THEN Some(offset + limit) ELSE None]

\* DataStorage.get_job_archives.  A start that does not parse raises
\* ValueError in sort_key and again where the Archive of a page entry is
\* built (line 284), the comparison of a naive key with an aware one
\* TypeError in the sort; the function logs either and returns None.
get_job_archives(dir, offset, limit, sort_by, sort_order, now) ==
    IF ~Exists(dir.archives) THEN ReturnNone
    ELSE LET archives_data == Content(dir.archives)
             keyed == [i \in 1..Len(archives_data) |->
                          [key |-> sort_key(archives_data[i], sort_by).key,
                           archive |-> archives_data[i]]]
             keys == {sort_key(archives_data[i], sort_by) : i \in 1..Len(archives_data)}
             sorted == SortByKey(<< >>, keyed, sort_order = "desc")
             paginated_archives == Slice(sorted, offset, limit)
         IN IF \E k \in keys : k.raised THEN ReturnNone
            ELSE IF \E k1 \in keys, k2 \in keys : k1.aware # k2.aware THEN ReturnNone
            ELSE IF \E i \in 1..Len(paginated_archives) :
                       sort_key(paginated_archives[i].archive, "date").raised
            THEN ReturnNone
            ELSE Return(Page([i \in 1..Len(paginated_archives) |->
                                 ArchiveItem(paginated_archives[i].archive, now)],
                             Len(archives_data), offset, limit))

\* the BackupRun object get_job_runs builds, and the fields of it that
\* get_run_details returns
RunItem(run) ==
    [id |-> run["id"], status |-> run["status"],
     timestamp |-> fromisoformat(run["timestamp"][1]),
     duration |-> GetTrue(run, "duration"),
     endTimestamp |-> IF IsNone(run["end_timestamp"]) THEN None
                      ELSE fromisoformat(run["end_timestamp"][1])]

\* DataStorage.get_job_runs
get_job_runs(dir, limit) ==
    IF ~Exists(dir.runs) THEN ReturnList(<< >>)
    ELSE LET sorted_runs == Slice(SortRunsDesc(RunsOf(dir)), 0, limit)
         IN ReturnList([i \in 1..Len(sorted_runs) |-> RunItem(sorted_runs[i])])

\* a lookup that asks for the run's log file as well as its list entry
get_logged_run_details(dir, run_id, offset, limit) ==
    IF ~Exists(dir.runs) \/ ~Has(dir.logs, run_id) THEN ReturnNone
    ELSE LET i == IndexOfRun(RunsOf(dir), run_id)
             all_lines == Get(dir.logs, run_id, << >>)
         IN IF i = 0 THEN ReturnNone
            ELSE Return([run |-> RunItem(RunsOf(dir)[i]),
                         logLines |-> Slice(all_lines, offset, limit),
                         totalLines |-> Len(all_lines),
                         hasMore |-> offset + limit < Len(all_lines),
                         nextOffset |-> IF offset + limit < Len(all_lines)
                                        THEN Some(offset + limit) ELSE None])

\* DataStorage.get_run_details
get_run_details(dir, run_id, offset, limit) ==
    IF ~Exists(dir.runs) THEN ReturnNone
    ELSE LET i == IndexOfRun(RunsOf(dir), run_id)
             all_lines == Get(dir.logs, run_id, << >>)
         IN IF i = 0 THEN ReturnNone
            ELSE Return([run |-> RunItem(RunsOf(dir)[i]),
                         logLines |-> Slice(all_lines, offset, limit),
                         totalLines |-> Len(all_lines),
                         hasMore |-> offset + limit < Len(all_lines),
                         nextOffset |-> IF offset + limit < Len(all_lines)
                                        THEN Some(offset + limit) ELSE None])

\* the loaded events sorted by timestamp, newest first (the event files of
\* the model carry distinct timestamps)
RECURSIVE EventsNewestFirst(_)
EventsNewestFirst(events) ==
    IF DOMAIN events = {} THEN << >>
    ELSE LET newest == CHOOSE e \in DOMAIN events : \A o \in DOMAIN events :
                          events[o].timestamp.wall <= events[e].timestamp.wall
         IN <<events[newest]>>
            \o EventsNewestFirst([e \in DOMAIN events \ {newest} |-> events[e]])

\* DataStorage.get_job_events: an event file whose timestamp does not parse
\* is logged and passed over
get_job_events(dir, offset, limit) ==
    LET parsed == [e \in {e \in DOMAIN dir.events :
                            ~IsNone(fromisoformat(dir.events[e].timestamp))}
                   |-> dir.events[e]]
        events_with_timestamps == EventsNewestFirst(parsed)
        paginated_events == Slice(events_with_timestamps, offset, limit)
    IN Return(Page([i \in 1..Len(paginated_events) |->
                       [id |-> paginated_events[i].id,
                        type |-> paginated_events[i].type,
                        timestamp |-> paginated_events[i].timestamp,
                        message |-> paginated_events[i].message,
                        hasInfo |-> paginated_events[i].has_info,
                        extra |-> paginated_events[i].extra]],
                   Len(events_with_timestamps), offset, limit))

\* DataStorage.get_event_info: the info text of the model is one line
get_event_info(dir, event_id, offset, limit) ==
    IF ~Has(dir.infos, event_id) THEN ReturnNone
    ELSE LET all_lines == <<dir.infos[event_id]>>
         IN Return([lines |-> Slice(all_lines, offset, limit),
                    totalLines |-> Len(all_lines),
                    hasMore |-> offset + limit < Len(all_lines),
                    nextOffset |-> IF offset + limit < Len(all_lines)
                                   THEN Some(offset + limit) ELSE None])

\* ------------------------------------------------------- HTTP routes
\* data.get('repository', {}).get('label')
LabelOf(repo_data) == GetTrue(Get(repo_data, "repository", EmptyDict), "label")

\* the first entry of the list with the label, 0 when there is none
IndexOfLabel(repos, repository_label) ==
    LET hits == {i \in 1..Len(repos) : LabelOf(repos[i]) = Some(repository_label)}
    IN IF hits = {} THEN 0 ELSE CHOOSE i \in hits : \A k \in hits : i <= k

\* DataStorage.filter_borgmatic_data, called with a label: the dict it
\* returns ({} is EmptyDict)
filter_borgmatic_data(data, repository_label) ==
    IF data.is_list
    THEN LET i == IndexOfLabel(data.v, repository_label)
         IN IF i # 0 THEN data.v[i]
            ELSE IF Len(data.v) > 0 THEN data.v[1] ELSE EmptyDict
    ELSE LET d == data.v[1]
             nested == Get(d, "repositories", << >>)
         IN IF IsNone(LabelOf(d)) \/ LabelOf(d) = Some(repository_label) THEN d
            ELSE IF IndexOfLabel(nested, repository_label) # 0
            THEN nested[IndexOfLabel(nested, repository_label)]
            ELSE d

HTTPException(status_code, detail) == [http |-> status_code, detail |-> detail]
OK == [http |-> 200, detail |-> ""]

\* `raise HTTPException(...)` inside the try block of a route: the clause
\* `except Exception` of that try statement catches it (HTTPException is an
\* Exception) and raises the route's own 500 in its place
RaisedInTry(exc, internal_error) == internal_error

\* the repository selection of push_borgmatic_info (main.py 452-472) and of
\* push_borgmatic_rinfo (502-522): [raised, exc, data], data the dict handed
\* to the storage call
select_repository(data, repository_label) ==
    IF ~data.is_list
    THEN [raised |-> FALSE, exc |-> OK, data |-> data.v[1]]
    ELSE IF Len(data.v) > 1 /\ IsNone(repository_label)
    THEN [raised |-> TRUE, exc |-> HTTPException(400, "Multiple repositories found"),
          data |-> EmptyDict]
    ELSE IF ~IsNone(repository_label)
    THEN LET filtered_data == filter_borgmatic_data(data, repository_label[1])
         IN IF DOMAIN filtered_data = {}
            THEN [raised |-> TRUE, exc |-> HTTPException(400, "Repository with label not found"),
                  data |-> EmptyDict]
            ELSE [raised |-> FALSE, exc |-> OK, data |-> filtered_data]
    ELSE [raised |-> FALSE, exc |-> OK,
          data |-> IF Len(data.v) > 0 THEN data.v[1] ELSE EmptyDict]

\* the response of a GET route to the result of its storage call: the route
\* raises its 404 inside its try block when the result is None (or false)
Respond(result, not_found) ==
    IF result.none
    THEN RaisedInTry(HTTPException(404, not_found),
                     HTTPException(500, "Internal server error"))
    ELSE OK

Reply(query, job, args, payload, result, response) ==
    [query |-> query, job |-> job, args |-> args, payload |-> payload,
     now |-> clock, none |-> result.none, v |-> result.v,
     http |-> response.http, detail |-> response.detail]

\* ------------------------------------------ pushes and queries at the routes
\* archive lists pushed before the queries: none; three archives, the first
\* with statistics; one with a start that is no date; a naive start and one
\* with an offset; an entry with `time` in place of `start`
QueryArchiveLists ==
    << << >>,
       <<[name |-> "a2", start |-> [wall |-> 9, tz |-> ""],
          stats |-> [original_size |-> 2048]],
         Archive("a1", 8), Archive("a3", 7)>>,
       <<Archive("a1", 8), [name |-> "a2", start |-> [wall |-> 0, tz |-> "?"]]>>,
       <<Archive("a1", 8), [name |-> "a2", start |-> [wall |-> 9, tz |-> "+00:00"]]>>,
       <<[name |-> "a1", time |-> [wall |-> 9, tz |-> ""]]>> >>

\* borgmatic output pushed with a label: two repositories (the second
\* labelled "b"), and no repository
LabelPayloads == <<BorgmaticPayloads[5], [is_list |-> TRUE, v |-> << >>]>>
Labels == {None, Some("b"), Some("c")}

\* A query leaves the store as it is: the pushes are explored first and each
\* query on the store they leave, none after another query.
QueryKinds == {"jobs", "job", "archives", "runs", "run", "events", "event_info"}
Pushing == reply.query \notin QueryKinds

\* a push route whose storage call returned
Stored(query, job) == Reply(query, job, NoArgs, NoPayload, ReturnList(<< >>), OK)

\* main.py push_status
PostStatus ==
    /\ Pushing
    /\ nops < MaxQueryOps
    /\ \E j \in PushJobs, r \in 1..2, st \in {"success", "failed"} :
          /\ Call(Op("run", j, RunData(r, st, [wall |-> 9 + r, tz |-> "+00:00"])), NoFault)
          /\ reply' = Stored("push_status", j)

\* main.py push_borg_info
PostBorgInfo ==
    /\ Pushing
    /\ nops < MaxQueryOps
    /\ \E j \in PushJobs, k \in 1..Len(QueryArchiveLists) :
          /\ Call(Op("borg_info", j, [repository_info |-> RepoInfos[2],
                                      archive_list |-> QueryArchiveLists[k]]), NoFault)
          /\ reply' = Stored("push_borg_info", j)

\* main.py push_event
PostEvent ==
    /\ Pushing
    /\ nops < MaxQueryOps
    /\ \E j \in PushJobs, ty \in {"success", "failed"} :
          \E info \in InfosFor(ty) :
              /\ Call(Op("event", j,
                         [event_type |-> ty, message |-> "m", info |-> info,
                          extra |-> Extras[2], event_id |-> <<clock, uuid_count + 1>>]),
                      NoFault)
              /\ reply' = Stored("push_event", j)

\* main.py push_borgmatic_info and push_borgmatic_rinfo: the repository
\* selection, then the storage call with the selected dict
PostBorgmatic(kind, j, data, repository_label) ==
    LET selected == select_repository(data, repository_label)
        args == [NoArgs EXCEPT !.label = repository_label]
    IN IF selected.raised
       THEN /\ reply' = Reply(kind, j, args, data, ReturnNone,
                              RaisedInTry(selected.exc,
                                          HTTPException(500, IF kind = "borgmatic_info"
                                                             THEN "Failed to store Borgmatic info"
                                                             ELSE "Failed to store Borgmatic rinfo")))
            /\ UNCHANGED store_vars
       ELSE /\ Call(Op(kind, j, [data |-> [is_list |-> FALSE, v |-> <<selected.data>>]]),
                    NoFault)
            /\ reply' = Reply(kind, j, args, data, ReturnList(<< >>), OK)

PostBorgmaticInfo ==
    /\ Pushing
    /\ nops < MaxQueryOps
    /\ \E j \in PushJobs, i \in 1..Len(LabelPayloads), l \in Labels :
          PostBorgmatic("borgmatic_info", j, LabelPayloads[i], l)

PostBorgmaticRinfo ==
    /\ Pushing
    /\ nops < MaxQueryOps
    /\ \E j \in PushJobs, i \in 1..Len(LabelPayloads), l \in Labels :
          PostBorgmatic("borgmatic_rinfo", j, LabelPayloads[i], l)

\* main.py get_jobs
ListJobs ==
    /\ Pushing
    /\ reply' = Reply("jobs", "", NoArgs, NoPayload,
                      get_all_jobs(data_dir, JobConfigs, JobsByName, clock), OK)
    /\ UNCHANGED store_vars

\* main.py get_job
GetJob ==
    /\ Pushing
    /\ \E j \in Jobs \cup {"j9"} :
          LET result == get_job_details(data_dir, JobConfigs, j, clock)
          IN reply' = Reply("job", j, NoArgs, NoPayload, result,
                            Respond(result, "Job not found"))
    /\ UNCHANGED store_vars

\* main.py get_job_archives
ListArchives ==
    /\ Pushing
    /\ \E j \in Jobs, offset \in 0..2, limit \in 1..2,
          sort_by \in {"date", "name", "originalSize"}, sort_order \in {"asc", "desc"} :
          LET result == get_job_archives(data_dir[j], offset, limit, sort_by,
                                         sort_order, clock)
          IN reply' = Reply("archives", j,
                            [NoArgs EXCEPT !.offset = offset, !.limit = limit,
                                           !.sort_by = sort_by, !.sort_order = sort_order],
                            NoPayload, result, Respond(result, "Job not found"))
    /\ UNCHANGED store_vars

\* main.py get_job_runs (`runs is None` never holds: the storage call
\* returns a list)
ListRuns ==
    /\ Pushing
    /\ \E j \in Jobs, limit \in 1..2 :
          reply' = Reply("runs", j, [NoArgs EXCEPT !.limit = limit], NoPayload,
                         get_job_runs(data_dir[j], limit), OK)
    /\ UNCHANGED store_vars

\* main.py get_job_run_details
GetRunDetail ==
    /\ Pushing
    /\ \E j \in Jobs, run_id \in RunIds, offset \in 0..1 :
          LET result == get_run_details(data_dir[j], run_id, offset, 1)
          IN reply' = Reply("run", j,
                            [NoArgs EXCEPT !.id = run_id, !.offset = offset, !.limit = 1],
                            NoPayload, result, Respond(result, "Run not found"))
    /\ UNCHANGED store_vars

\* main.py get_job_events
ListEvents ==
    /\ Pushing
    /\ \E j \in Jobs, offset \in 0..1 :
          LET result == get_job_events(data_dir[j], offset, 1)
          IN reply' = Reply("events", j,
                            [NoArgs EXCEPT !.offset = offset, !.limit = 1],
                            NoPayload, result, Respond(result, "Job not found"))
    /\ UNCHANGED store_vars

\* main.py get_event_info, for a stored event
GetEventInfo ==
    /\ Pushing
    /\ \E j \in PushJobs :
          \E event_id \in DOMAIN data_dir[j].events :
              LET result == get_event_info(data_dir[j], event_id, 0, 1)
              IN reply' = Reply("event_info", j,
                                [NoArgs EXCEPT !.event = event_id, !.limit = 1],
                                NoPayload, result, Respond(result, "Event info not found"))
    /\ UNCHANGED store_vars

QueryNext ==
    \/ PostStatus
    \/ PostBorgInfo
    \/ PostEvent
    \/ PostBorgmaticInfo
    \/ PostBorgmaticRinfo
    \/ ListJobs
    \/ GetJob
    \/ ListArchives
    \/ ListRuns
    \/ GetRunDetail
    \/ ListEvents
    \/ GetEventInfo

QuerySpec == Init /\ [][QueryNext]_vars

\* ------------------------------- the run list, and a question about one run
RunDetailPush == Pushing /\ RunPush
RunDetailOther == Pushing /\ RunOther

RunDetailNext ==
    \/ RunDetailPush
    \/ RunDetailOther
    \/ GetRunDetail

RunDetailSpec == Init /\ [][RunDetailNext]_vars

\* --------------------------------- runs pushed with and without log lines
\* the log_lines of a push: none, one line, two lines
LogLines == << << >>, <<"started">>, <<"copied", "done">> >>
LogRunIds == {1, 2}

\* main.py push_status with the log lines the client sends
LogPush ==
    /\ Pushing
    /\ nops < MaxLogOps
    /\ \E j \in PushJobs, r \in LogRunIds, s \in {"running", "success"},
          i \in 1..Len(LogLines) :
          \E t \in RunStarts(r) :
              /\ Call(Op("run", j, [RunData(r, s, t) EXCEPT !.log_lines = LogLines[i]]),
                      NoFault)
              /\ reply' = Stored("push_status", j)

LogNext ==
    \/ LogPush
    \/ GetRunDetail

LogSpec == Init /\ [][LogNext]_vars

\* ------------------------------------- runs with starts and ends of all kinds
\* a datetime at half a second past the tick
HalfPast(wall) == [wall |-> wall, tz |-> "+00:00", half |-> 1]
OnTick(wall) == [wall |-> wall, tz |-> "+00:00"]
\* the start_time values and the end_time values of the pushes: ends before,
\* at and after the starts, at whole seconds and between them
DurationStarts == {OnTick(10), HalfPast(10), OnTick(12)}
DurationEnds == {None, Some(OnTick(9)), Some(OnTick(10)), Some(HalfPast(10)),
                 Some(OnTick(11)), Some(HalfPast(11)), Some(HalfPast(12))}

\* main.py push_status with the start and the end the client sends
DurationPush ==
    /\ nops < MaxQueryOps
    /\ \E j \in PushJobs, r \in LogRunIds, start \in DurationStarts,
          end \in DurationEnds :
          /\ Call(Op("run", j, [RunData(r, "success", start) EXCEPT !.end_time = end]),
                  NoFault)
          /\ reply' = Stored("push_status", j)

DurationSpec == Init /\ [][DurationPush]_vars

\* ----------------------------------- snapshot pushes with cache statistics
\* the total_size and total_csize values of the pushed statistics, in bytes
RatioTotals == {0, 1000, 3000}
RatioCsizes == {0, 1, 1000, 1500}
\* the repository info pushed: with statistics, or without a cache entry
StatsInfos ==
    {[cache |-> [stats |-> [total_size |-> total, total_csize |-> csize,
                            unique_size |-> csize]]] :
        total \in RatioTotals, csize \in RatioCsizes}
    \cup {EmptyDict}

\* main.py push_borg_info with the repository info the client sends
StatsPush ==
    /\ nops < MaxQueryOps
    /\ \E j \in PushJobs, info \in StatsInfos :
          /\ Call(Op("borg_info", j,
                     [repository_info |-> info, archive_list |-> ArchiveLists[2]]),
                  NoFault)
          /\ reply' = Stored("push_borg_info", j)

StatsSpec == Init /\ [][StatsPush]_vars

\* ------------------------------------------------ configuration validation
\* ''.join(chars): the str of a sequence of characters
RECURSIVE Join(_)
Join(chars) == IF chars = << >> THEN "" ELSE Head(chars) \o Join(Tail(chars))

\* the characters of the model's strings that the class [a-zA-Z0-9_-] holds
JobIdChars == {"j", "J", "1", "2", "-", "_"}

\* JOB_ID_PATTERN.match(job_id) with JOB_ID_PATTERN = ^[a-zA-Z0-9_-]+$ : as
\* in MAX_AGE_PATTERN, `$` also matches just before a newline that ends the
\* string
job_id_match(job_id) ==
    LET n == Len(job_id)
        matched == IF n > 0 /\ job_id[n] = "\n" THEN SubSeq(job_id, 1, n - 1)
                   ELSE job_id
    IN /\ Len(matched) >= 1
       /\ \A i \in 1..Len(matched) : matched[i] \in JobIdChars

\* ConfigValidator.validate_job_id, validate_max_age, validate_backup_type
validate_job_id(job_id) == job_id # << >> /\ job_id_match(job_id)
validate_max_age(max_age) == max_age # << >> /\ ~IsNone(max_age_match(max_age))
validate_backup_type(backup_type) == backup_type \in {"borg", "borgmatic"}

\* job_id.replace('-', ' ').replace('_', ' ').title(): title() puts a letter
\* that follows a letter in lower case and every other letter in upper case
\* (the letter of the model's job ids is j)
IsLetter(c) == c \in {"j", "J"}
title(text) ==
    [i \in 1..Len(text) |->
        IF ~IsLetter(text[i]) THEN text[i]
        ELSE IF i > 1 /\ IsLetter(text[i - 1]) THEN "j" ELSE "J"]
default_display_name(job_id) ==
    Join(title([i \in 1..Len(job_id) |->
                   IF job_id[i] \in {"-", "_"} THEN " " ELSE job_id[i]]))

\* the loop over api_keys of validate_and_fix_job_config (lines 116-124),
\* n keys generated before it: [keys, n]
RECURSIVE valid_keys(_, _)
valid_keys(api_keys, n) ==
    IF api_keys = << >> THEN [keys |-> << >>, n |-> n]
    ELSE LET key == Head(api_keys)
             keep == key.str /\ key.chars >= 16
             rest == valid_keys(Tail(api_keys), IF keep THEN n ELSE n + 1)
         IN [keys |-> <<IF keep THEN key ELSE generate_api_key(n + 1)>> \o rest.keys,
             n |-> rest.n]

\* F at the value of x: the argument is computed once, before the call, as
\* Python computes it
Strict(F(_), x) == CHOOSE y \in {F(v) : v \in {x}} : TRUE

\* ConfigValidator.validate_and_fix_job_config on the dict loaded from the
\* file config_path of the directory dir, n keys generated before:
\* [raised, job_id, config, modified, dir, n], raised when it raises
\* ConfigValidationError, dir the directory as it leaves it.  The checks
\* run one after the other on s = [config, n, modified]: fixed_config, the
\* keys generated so far and the flag.
validate_and_fix_job_config(config_data, config_path, dir, n) ==
    LET job_id == Get(config_data, "job_id", << >>)
        fix_backup_type(s) ==
            IF validate_backup_type(Get(s.config, "backup_type", "borgmatic")) THEN s
            ELSE [s EXCEPT !.config = Put(@, "backup_type", "borgmatic"),
                           !.modified = TRUE]
        fix_max_age(s) ==
            IF validate_max_age(Get(s.config, "max_age", <<"2", "4", "h">>)) THEN s
            ELSE [s EXCEPT !.config = Put(@, "max_age", <<"2", "4", "h">>),
                           !.modified = TRUE]
        fix_api_keys(s) ==
            IF Get(s.config, "api_keys", << >>) = << >>
            THEN [s EXCEPT !.config = Put(@, "api_keys", <<generate_api_key(s.n + 1)>>),
                           !.n = @ + 1, !.modified = TRUE]
            ELSE Strict(LAMBDA checked :
                            [config |-> Put(s.config, "api_keys", checked.keys),
                             n |-> checked.n,
                             modified |-> s.modified \/ checked.n # s.n],
                        valid_keys(s.config["api_keys"], s.n))
        fix_display_name(s) ==
            IF Has(s.config, "display_name") THEN s
            ELSE [s EXCEPT !.config = Put(@, "display_name", default_display_name(job_id)),
                           !.modified = TRUE]
        fix_tags(s) ==
            IF Has(s.config, "tags") THEN s
            ELSE [s EXCEPT !.config = Put(@, "tags", << >>), !.modified = TRUE]
        return(s) ==
            [raised |-> FALSE, job_id |-> job_id, config |-> s.config,
             modified |-> s.modified,
             dir |-> IF s.modified THEN [dir EXCEPT ![config_path] = File(s.config)]
                     ELSE dir,
             n |-> s.n]
    IN IF ~validate_job_id(job_id)
       THEN [raised |-> TRUE, job_id |-> job_id, config |-> config_data,
             modified |-> FALSE, dir |-> dir, n |-> n]
       ELSE Strict(return,
            Strict(fix_tags,
            Strict(fix_display_name,
            Strict(fix_api_keys,
            Strict(fix_max_age,
            Strict(fix_backup_type,
                   [config |-> config_data, n |-> n, modified |-> FALSE]))))))

\* a line of the error validate_all_configs raises: the file it names, its
\* wording and the job id it quotes
ErrorLine(file, text, job_id) == [file |-> file, text |-> text, job_id |-> job_id]

\* the loop of validate_all_configs over the files in the order glob lists
\* them: acc is [valid_configs, ids, errors, dir, n]; ids holds the keys of
\* valid_configs in the order they were put in, which is the order the dict
\* is iterated in; seen_job_ids holds the same keys.  toml.load raises on a
\* file that holds no TOML.
RECURSIVE validate_loop(_, _)
validate_loop(acc, order) ==
    IF order = << >> THEN acc
    ELSE LET config_file == Head(order)
             config_data == Content(acc.dir[config_file])
             checked(r) ==
                IF r.raised
                THEN [acc EXCEPT !.errors =
                         Append(@, ErrorLine(config_file, "Error in: Invalid job_id",
                                             r.job_id))]
                ELSE IF Join(r.job_id) \in DOMAIN acc.valid_configs
                THEN [acc EXCEPT !.errors =
                                    Append(@, ErrorLine(config_file, "Duplicate job_id",
                                                        r.job_id)),
                                 !.dir = r.dir, !.n = r.n]
                ELSE [acc EXCEPT !.valid_configs = Put(@, Join(r.job_id), r.config),
                                 !.ids = Append(@, Join(r.job_id)),
                                 !.dir = r.dir, !.n = r.n]
             next ==
                IF config_data = Garbled
                THEN [acc EXCEPT !.errors =
                         Append(@, ErrorLine(config_file, "Error in", << >>))]
                ELSE Strict(checked,
                            validate_and_fix_job_config(config_data, config_file,
                                                        acc.dir, acc.n))
         IN Strict(LAMBDA a : validate_loop(a, Tail(order)), next)

\* ConfigValidator.validate_all_configs: [raised, errors, configs, ids, dir,
\* n], configs what it returns when it does not raise and ids its keys in
\* their order
validate_all_configs(dir, order, n) ==
    Strict(LAMBDA acc : [raised |-> acc.errors # << >>, errors |-> acc.errors,
                         configs |-> acc.valid_configs, ids |-> acc.ids,
                         dir |-> acc.dir, n |-> acc.n],
           validate_loop([valid_configs |-> EmptyDict, ids |-> << >>,
                          errors |-> << >>, dir |-> dir, n |-> n], order))

\* get_all_job_configs without its except clause: what the loop had
\* gathered is returned when validation fails
get_gathered_job_configs(dir, order, n) == validate_all_configs(dir, order, n)

\* config.get_all_job_configs: a failed validation is printed and {} returned
get_all_job_configs(dir, order, n) ==
    LET r == validate_all_configs(dir, order, n)
    IN IF r.raised THEN [r EXCEPT !.configs = EmptyDict, !.ids = << >>] ELSE r

\* the loops of AuthManager._load_job_api_keys over the keys of a job and
\* over the jobs, in the order validation returned them
RECURSIVE keys_loop(_, _, _)
keys_loop(api_key_to_job_mapping, api_keys, job_id) ==
    IF api_keys = << >> THEN api_key_to_job_mapping
    ELSE keys_loop(Put(api_key_to_job_mapping, Head(api_keys), job_id),
                   Tail(api_keys), job_id)
RECURSIVE jobs_loop(_, _, _)
jobs_loop(api_key_to_job_mapping, job_configs, ids) ==
    IF ids = << >> THEN api_key_to_job_mapping
    ELSE jobs_loop(keys_loop(api_key_to_job_mapping,
                             Get(job_configs[Head(ids)], "api_keys", << >>), Head(ids)),
                   job_configs, Tail(ids))

\* AuthManager._load_job_api_keys when nothing is cached: the tokens of the
\* main configuration map to the wildcard, the keys of the jobs to their job
load_job_api_keys(job_configs, ids) ==
    jobs_loop([token \in ApiTokens |-> "*"], job_configs, ids)

\* AuthManager.verify_api_token alone: the token is known, for whatever job
verify_api_token(api_key_to_job_mapping, token, job_id) ==
    token \in DOMAIN api_key_to_job_mapping

\* AuthManager.verify_api_token_for_job against the cached mapping
verify_api_token_for_job(api_key_to_job_mapping, token, job_id) ==
    /\ token \in DOMAIN api_key_to_job_mapping
    /\ \/ api_key_to_job_mapping[token] = "*"
       \/ api_key_to_job_mapping[token] = job_id

\* the display names of the model in the order of str, and the job ids of a
\* validated configuration in the order sorted(jobs, key=name) leaves them
DisplayNames == <<"J1", "J1\n", "J2", "j1", "j2">>
RECURSIVE ids_by_name(_, _, _)
ids_by_name(job_configs, ids, r) ==
    IF r > Len(DisplayNames) THEN << >>
    ELSE SelectSeq(ids, LAMBDA id : job_configs[id]["display_name"] = DisplayNames[r])
         \o ids_by_name(job_configs, ids, r + 1)

\* ------------------------------------- the job configuration directory
\* API keys of the configuration files tried: five characters, sixteen, an
\* integer where a str belongs
ShortKey == ApiKey(<<"key", 3>>, 5)
NumberKey == [str |-> FALSE, chars |-> 0, id |-> <<"key", 4>>]
\* a file in which every field validation repairs needs repair
Unrepaired(api_keys) ==
    [backup_type |-> "tar", max_age |-> <<"x">>, api_keys |-> api_keys]

\* the file contents tried: the two jobs as validation leaves them; a second
\* file for job j1; job j2 in need of repair, with one short key, without
\* keys; job ids that are no id: with a blank, missing, empty; one that ends
\* in a newline; a file that holds no TOML; job j2 with an integer for key
ConfigContents ==
    << Content(ValidDir["a.toml"]),
       Content(ValidDir["b.toml"]),
       JobFile(<<"j", "1">>, "j1", ApiKey(<<"key", 5>>, 20)),
       Unrepaired(<<ShortKey, ApiKey(<<"key", 6>>, 16)>>) @@ [job_id |-> <<"j", "2">>],
       JobFile(<<"j", "2">>, "j2", ShortKey),
       [job_id |-> <<"j", "2">>, api_keys |-> << >>],
       [job_id |-> <<"j", "2">>],
       Unrepaired(<<ShortKey>>) @@ [job_id |-> <<"j", " ", "1">>],
       Unrepaired(<<ShortKey>>),
       Unrepaired(<<ShortKey>>) @@ [job_id |-> << >>],
       Unrepaired(<<ShortKey>>) @@ [job_id |-> <<"j", "1", "\n">>],
       Garbled,
       JobFile(<<"j", "2">>, "j2", NumberKey) >>

Dir(a, b, c) ==
    LET file(i) == IF i = 0 THEN Absent ELSE File(ConfigContents[i])
    IN ("a.toml" :> file(a)) @@ ("b.toml" :> file(b)) @@ ("c.toml" :> file(c))

\* the directories the server is started on
ConfigDirs ==
    << ValidDir, Dir(1, 3, 2), Dir(1, 4, 0), Dir(5, 0, 0), Dir(5, 4, 1),
       Dir(6, 0, 0), Dir(7, 0, 0), Dir(1, 8, 0), Dir(9, 2, 0), Dir(10, 0, 0),
       Dir(11, 0, 0), Dir(12, 2, 0), Dir(13, 0, 0), Dir(0, 0, 0) >>

\* what the operator does to the directory while the server runs: removes
\* b.toml, puts job j2 in its place, adds a file for job j2 with a new key
AddedKey == ApiKey(<<"key", 7>>, 20)
Edits ==
    { [file |-> "b.toml", content |-> Absent],
      [file |-> "b.toml", content |-> File(ConfigContents[2])],
      [file |-> "c.toml", content |-> File(JobFile(<<"j", "2">>, "j2", AddedKey))] }

\* the tokens presented with a push
Tokens ==
    ApiTokens \cup {ApiKey(<<"key", 1>>, 20), ShortKey, AddedKey, generate_api_key(1)}

\* the orders in which glob can list the files of a directory
Orders(dir) ==
    LET files == {f \in DOMAIN dir : Exists(dir[f])}
    IN {order \in [1..Cardinality(files) -> files] :
           \A i, k \in 1..Cardinality(files) : i # k => order[i] # order[k]}

data_vars == <<data_dir, clock, uuid_count, last, run_calls, procs, summary_write>>

ConfigInit ==
    /\ data_dir = [j \in Jobs |-> EmptyJobDir]
    /\ clock = StartClock
    /\ uuid_count = 0
    /\ nops = 0
    /\ last = [op |-> NoOp, status |-> "none", write_failed |-> FALSE,
               before |-> EmptyJobDir, repeat |-> FALSE]
    /\ run_calls = [j \in Jobs |-> [r \in RunIds |-> << >>]]
    /\ procs = [p \in Procs |-> Idle]
    /\ summary_write = NoWrite
    /\ reply = NoReply
    /\ \E i \in 1..Len(ConfigDirs) :
          /\ config_dir = ConfigDirs[i]
          /\ config_call = [NoConfigCall EXCEPT !.before = ConfigDirs[i]]
    /\ key_count = 0
    /\ auth_manager = NoCache

\* A job query changes the directory as validate_configs does, and a token
\* check after the first changes nothing: the calls and edits are explored
\* first and each of these on the state they leave, none after another.
Answered ==
    \/ config_call.call = "get_all_job_configs"
    \/ /\ config_call.call = "verify_api_token_for_job"
       /\ ~IsNone(config_call.cache_before.api_key_to_job_mapping)

\* the record of a call that loaded the configuration
Loaded(call, order, r) ==
    [NoConfigCall EXCEPT !.call = call, !.order = order, !.before = config_dir,
                         !.raised = r.raised, !.errors = r.errors,
                         !.configs = IF r.raised THEN EmptyDict ELSE r.configs,
                         !.modified = r.dir # config_dir,
                         !.cache_before = auth_manager]

\* validation.validate_configs, called on the directory
ValidateAll ==
    /\ ~Answered
    /\ nops < MaxConfigOps
    /\ \E order \in Orders(config_dir) :
          LET r == validate_all_configs(config_dir, order, key_count)
          IN /\ config_dir' = r.dir
             /\ key_count' = r.n
             /\ config_call' = Loaded("validate_all_configs", order, r)
    /\ nops' = nops + 1
    /\ UNCHANGED <<data_vars, reply, auth_manager>>

\* validate_and_fix_job_config on the dict loaded from one file
ValidateAndFix ==
    /\ ~Answered
    /\ nops < MaxConfigOps
    /\ \E f \in ConfigFiles :
          /\ Exists(config_dir[f])
          /\ Content(config_dir[f]) # Garbled
          /\ LET r == validate_and_fix_job_config(Content(config_dir[f]), f,
                                                  config_dir, key_count)
             IN /\ config_dir' = r.dir
                /\ key_count' = r.n
                /\ config_call' =
                      [NoConfigCall EXCEPT
                          !.call = "validate_and_fix_job_config", !.file = f,
                          !.before = config_dir, !.raised = r.raised,
                          !.configs = IF r.raised THEN EmptyDict
                                      ELSE (f :> r.config),
                          !.modified = r.modified, !.cache_before = auth_manager]
    /\ nops' = nops + 1
    /\ UNCHANGED <<data_vars, reply, auth_manager>>

\* main.py get_jobs: DataStorage.get_all_jobs on the configuration it loads
ConfigListJobs ==
    /\ ~Answered
    /\ \E order \in Orders(config_dir) :
          LET r == get_all_job_configs(config_dir, order, key_count)
              by_name == ids_by_name(r.configs, r.ids, 1)
          IN /\ config_dir' = r.dir
             /\ key_count' = r.n
             /\ config_call' = Loaded("get_all_job_configs", order, r)
             /\ reply' = Reply("jobs", "", NoArgs, NoPayload,
                               get_all_jobs(data_dir, r.configs, by_name, clock), OK)
    /\ UNCHANGED <<data_vars, nops, auth_manager>>

\* main.py get_job: DataStorage.get_job_details on the configuration it loads
ConfigGetJob ==
    /\ ~Answered
    /\ \E order \in Orders(config_dir), j \in Jobs \cup {"j9"} :
          LET r == get_all_job_configs(config_dir, order, key_count)
              result == get_job_details(data_dir, r.configs, j, clock)
          IN /\ config_dir' = r.dir
             /\ key_count' = r.n
             /\ config_call' = [Loaded("get_all_job_configs", order, r) EXCEPT !.job = j]
             /\ reply' = Reply("job", j, NoArgs, NoPayload, result,
                               Respond(result, "Job not found"))
    /\ UNCHANGED <<data_vars, nops, auth_manager>>

\* the token check of a push route: get_api_token, then
\* verify_api_token_for_job.  The first check of the process loads the
\* configuration and caches the mapping.
FirstTokenCheck ==
    /\ ~Answered
    /\ nops < MaxConfigOps
    /\ IsNone(auth_manager.api_key_to_job_mapping)
    /\ \E token \in Tokens, j \in Jobs, order \in Orders(config_dir) :
          LET r == get_all_job_configs(config_dir, order, key_count)
              mapping == load_job_api_keys(r.configs, r.ids)
          IN /\ config_dir' = r.dir
             /\ key_count' = r.n
             /\ auth_manager' = [api_key_to_job_mapping |-> Some(mapping)]
             /\ config_call' =
                   [Loaded("verify_api_token_for_job", order, r) EXCEPT
                       !.token = Some(token), !.job = j,
                       !.accepted = verify_api_token_for_job(mapping, token, j)]
    /\ nops' = nops + 1
    /\ UNCHANGED <<data_vars, reply>>

\* a later check answers from the cached mapping
TokenCheck ==
    /\ ~Answered
    /\ ~IsNone(auth_manager.api_key_to_job_mapping)
    /\ \E token \in Tokens, j \in Jobs :
          config_call' =
              [NoConfigCall EXCEPT
                  !.call = "verify_api_token_for_job", !.before = config_dir,
                  !.token = Some(token), !.job = j,
                  !.accepted = verify_api_token_for_job(
                                   auth_manager.api_key_to_job_mapping[1], token, j),
                  !.cache_before = auth_manager]
    /\ UNCHANGED <<data_vars, reply, nops, config_dir, key_count, auth_manager>>

\* the operator changes a file of the directory
EditFile ==
    /\ ~Answered
    /\ nops < MaxConfigOps
    /\ \E e \in Edits :
          /\ config_dir[e.file] # e.content
          /\ config_dir' = [config_dir EXCEPT ![e.file] = e.content]
          /\ config_call' = [NoConfigCall EXCEPT !.call = "edit", !.file = e.file,
                                                 !.before = config_dir,
                                                 !.cache_before = auth_manager]
    /\ nops' = nops + 1
    /\ UNCHANGED <<data_vars, reply, key_count, auth_manager>>

ConfigNext ==
    \/ ValidateAll
    \/ ValidateAndFix
    \/ ConfigListJobs
    \/ ConfigGetJob
    \/ FirstTokenCheck
    \/ TokenCheck
    \/ EditFile

ConfigSpec == ConfigInit /\ [][ConfigNext]_vars

\* ================================================================ claims

SnapshotKinds == {"borg_info", "borgmatic_info", "borgmatic_rinfo"}
RunFields == {"status", "last_backup", "last_successful_backup"}
ArchiveFields == {"archive_count", "full_size", "compressed_size",
                  "deduplicated_size", "compression_ratio", "repository_path"}
SummaryDefaults ==
    [archive_count |-> 0, full_size |-> ZeroB, compressed_size |-> ZeroB,
     deduplicated_size |-> ZeroB, compression_ratio |-> ZeroPct,
     repository_path |-> "", backup_type |-> "borgmatic", status |-> "unknown"]

\* the last invocation is a completed call of one of the given handlers
Completed(kinds) == last.op.kind \in kinds /\ last.status = "ok"
Before == SummaryOf(last.before)
After == SummaryOf(data_dir[last.op.job])

\* field f has the value it had; a field that had none has none or its default
Kept(f, old, new) ==
    IF f \in DOMAIN old THEN f \in DOMAIN new /\ new[f] = old[f]
    ELSE f \in DOMAIN new => f \in DOMAIN SummaryDefaults /\ new[f] = SummaryDefaults[f]

\* C1: a run or event update leaves archive_count, the three sizes,
\* compression_ratio and repository_path of the summary as they were, and a
\* snapshot update leaves status, last_backup, last_successful_backup and
\* backup_type as they were; each update sets its own fields, so that a run
\* and a snapshot, in either order, leave both groups present.
C1_FieldPreservation ==
    /\ Completed({"run", "event"}) => \A f \in ArchiveFields : Kept(f, Before, After)
    /\ Completed(SnapshotKinds) =>
          \A f \in RunFields \cup {"backup_type"} : Kept(f, Before, After)
    /\ Completed({"run"}) =>
          /\ After["status"] = last.op.args.status
          /\ After["last_backup"] = last.op.args.start_time[1]
    /\ Completed({"borg_info"}) =>
          After["archive_count"] = Len(last.op.args.archive_list)

\* a run stored after a snapshot with statistics, and a snapshot stored after
\* a run: the summary then carries both groups of fields
C1_Witness ==
    \/ /\ Completed({"run"})
       /\ "archive_count" \in DOMAIN Before /\ Before["archive_count"] = 2
       /\ Before["full_size"] # ZeroB
       /\ After["archive_count"] = 2 /\ After["status"] = "failed"
    \/ /\ Completed({"borg_info"})
       /\ "last_backup" \in DOMAIN Before /\ Before["status"] = "failed"
       /\ After["archive_count"] = 2 /\ After["status"] = "failed"
       /\ "last_backup" \in DOMAIN After

\* the summary fields an update is authoritative for
Authoritative(kind) == IF kind \in SnapshotKinds THEN ArchiveFields ELSE RunFields
\* the invocation reached the write of job_summary.json
WroteSummary ==
    /\ last.status = "ok"
    /\ \E i \in 1..Len(Program(last.op)) :
          Program(last.op)[i].act = "write" /\ Program(last.op)[i].file = "job_summary"

\* C2: after a summary update through any of the three paths the summary
\* holds a value for each of archive_count, the three sizes,
\* compression_ratio, repository_path, backup_type and status, a field
\* never written carrying its default.
C2_AllFieldsAfterUpdate ==
    WroteSummary =>
        \A f \in DOMAIN SummaryDefaults :
            /\ f \in DOMAIN After
            /\ (f \notin DOMAIN Before /\ f \notin Authoritative(last.op.kind))
                  => After[f] = SummaryDefaults[f]

\* the event is the terminal one of the job
Gated(args) ==
    /\ args.event_type \in {"success", "failed"}
    /\ ~IsNone(args.extra)
    /\ "action" \in DOMAIN args.extra[1]
    /\ args.extra[1]["action"] = "everything"

Unchanged(f, old, new) ==
    /\ f \in DOMAIN old <=> f \in DOMAIN new
    /\ f \in DOMAIN old => new[f] = old[f]

\* C3: store_event writes status, last_backup and last_successful_backup
\* exactly when the type is success or failed and extra.action is
\* "everything": then status is the type and last_backup the event
\* timestamp, and a success also sets last_successful_backup; every other
\* event is recorded and leaves the three fields as they were.
C3_EventGating ==
    Completed({"event"}) =>
        LET args == last.op.args
            ts == Now(last.op.t0)
        IN /\ args.event_id \in DOMAIN data_dir[last.op.job].events
           /\ ~Gated(args) => \A f \in RunFields : Unchanged(f, Before, After)
           /\ Gated(args) =>
                 /\ After["status"] = args.event_type
                 /\ After["last_backup"] = ts
                 /\ args.event_type = "success" => After["last_successful_backup"] = ts
                 /\ args.event_type = "failed" =>
                       Unchanged("last_successful_backup", Before, After)

\* a success event of a sub-step after a failure was recorded, and the
\* terminal success event
C3_Witness ==
    /\ Completed({"event"})
    /\ last.op.args.event_type = "success"
    /\ \/ /\ ~Gated(last.op.args)
          /\ ~IsNone(last.op.args.extra)
          /\ "status" \in DOMAIN Before /\ Before["status"] = "failed"
          /\ After["status"] = "failed"
       \/ /\ Gated(last.op.args)
          /\ "status" \in DOMAIN Before /\ Before["status"] = "failed"
          /\ After["status"] = "success"

\* the archive list of a pushed payload
PushedArchives(op) ==
    IF op.kind = "borg_info" THEN op.args.archive_list
    ELSE Get(op.args.data.v[1], "archives", << >>)

\* the payload is one repository dict that names its archive list
NamesArchives(op) ==
    op.kind # "borg_info" =>
        ~op.args.data.is_list /\ Has(op.args.data.v[1], "archives")

\* C6: after a repository-info push through any of the three variants the
\* stored archive list is the archive list of the pushed payload, an empty
\* one included: no archive of an earlier push remains.
C6_ArchivesReplaced ==
    (Completed(SnapshotKinds) /\ NamesArchives(last.op))
        => ArchivesOf(data_dir[last.op.job]) = PushedArchives(last.op)

\* everything of a summary but last_updated
ApartFromStamp(summary) == Restrict(summary, DOMAIN summary \ {"last_updated"})

\* C7: a second store_borg_info call with the arguments of the call before
\* it leaves the summary (apart from last_updated), the archive list and the
\* repository info as the first call left them.
C7_ArchiveSetIdempotent ==
    (Completed({"borg_info"}) /\ last.repeat) =>
        /\ ApartFromStamp(After) = ApartFromStamp(Before)
        /\ data_dir[last.op.job].archives = last.before.archives
        /\ data_dir[last.op.job].repository_info = last.before.repository_info

\* the repeated call, after a first call that replaced an earlier archive
\* list and left a summary that also holds a run's fields
C7_Witness ==
    /\ Completed({"borg_info"}) /\ last.repeat
    /\ nops = 3
    /\ Len(last.op.args.archive_list) = 2
    /\ "last_backup" \in DOMAIN After
    /\ After["last_updated"] # Before["last_updated"]

\* C8: when a snapshot push returns, the summary's archive_count is the
\* number of entries of the stored archive list.
C8_CountMatchesArchives ==
    Completed(SnapshotKinds) =>
        Get(After, "archive_count", 0) = Len(ArchivesOf(data_dir[last.op.job]))

\* ------------------------------------------------------------ run list
\* the records of the list with the given id
RecordsOf(runs_list, run_id) ==
    SelectSeq(runs_list, LAMBDA e : e.id = run_id)
\* the ids of the list's records
IdsOf(runs_list) == {runs_list[i].id : i \in 1..Len(runs_list)}

\* the last invocation is the second (or a later) store_backup_run call for
\* its run id, with a status other than that of the call before it
SecondCall ==
    /\ Completed({"run"})
    /\ LET calls == run_calls[last.op.job][last.op.args.run_id]
       IN Len(calls) = 2 /\ calls[1] # calls[2]

\* C4 as stated: after the second of two store_backup_run calls with one
\* run id and different statuses the run list holds exactly one record with
\* that id, carrying the values of the second call.
C4_RunUpsert ==
    SecondCall =>
        RecordsOf(RunsOf(data_dir[last.op.job]), last.op.args.run_id)
            = <<run_entry(last.op.args)>>

\* C4, amended: after the second call the run list holds at most one record
\* with that id, and a record it holds carries the values of the second
\* call; it holds one whenever the list held fewer than RunCap (in the
\* program: 100) runs with other ids before the call.
C4_RunUpsertWithinCap ==
    SecondCall =>
        LET recs == RecordsOf(RunsOf(data_dir[last.op.job]), last.op.args.run_id)
            others == IdsOf(RunsOf(last.before)) \ {last.op.args.run_id}
        IN /\ Len(recs) <= 1
           /\ Len(recs) = 1 => recs[1] = run_entry(last.op.args)
           /\ Cardinality(others) < RunCap => Len(recs) = 1

\* a run listed as running, in a full list, is stored again as finished
C4_Witness ==
    /\ SecondCall
    /\ last.op.args.status = "success"
    /\ Len(RunsOf(last.before)) = RunCap
    /\ \E i \in 1..RunCap :
          /\ RunsOf(last.before)[i].id = last.op.args.run_id
          /\ RunsOf(last.before)[i].status = "running"
    /\ RecordsOf(RunsOf(data_dir[last.op.job]), last.op.args.run_id)
          = <<run_entry(last.op.args)>>

\* the start time stored for a run, from its run_<id>.json
StartOf(dir, run_id) == dir.run_files[run_id].timestamp[1]

\* RunCap + 1 runs with distinct ids were stored, each once
AllRunsStoredOnce ==
    /\ Completed({"run"})
    /\ \A r \in RunIds : Len(run_calls[last.op.job][r]) = 1

\* C5: after RunCap + 1 (in the program: 101) runs with distinct ids were
\* stored the run list holds RunCap records, and the run left out started
\* no later than any run kept.
C5_EvictsEarliest ==
    AllRunsStoredOnce =>
        LET dir == data_dir[last.op.job]
            kept == IdsOf(RunsOf(dir))
        IN /\ Len(RunsOf(dir)) = RunCap
           /\ Cardinality(kept) = RunCap
           /\ \A r \in RunIds \ kept : \A k \in kept :
                 Instant(StartOf(dir, r)) <= Instant(StartOf(dir, k))

\* --------------------------------------------------------- concurrency
SummaryRead == [act |-> "read", file |-> "job_summary"]
SummaryWrite == [act |-> "write", file |-> "job_summary"]

\* every write of job_summary.json a process has performed came directly
\* after its read of job_summary.json
FreshlyRead(log) ==
    \A i \in 1..Len(log) : log[i] = SummaryWrite => i > 1 /\ log[i - 1] = SummaryRead

\* the writes a process performed after its write of job_summary.json
WritesAfterSummary(log) ==
    {log[k].file : k \in {k \in 1..Len(log) :
        /\ log[k].act = "write"
        /\ \E i \in 1..(k - 1) : log[i] = SummaryWrite}}

\* the fields the writer of the summary sets itself
OwnFields(op) == Authoritative(op.kind) \cup {"last_updated", "job_id"}

\* the summary write lost a field another operation had written
LostField(w) ==
    \E f \in DOMAIN w.before \ OwnFields(w.op) :
        f \notin DOMAIN w.after \/ w.after[f] # w.before[f]

\* the writer's own values are in the summary it wrote
OwnFieldsPresent(w) ==
    /\ w.op.kind = "run" =>
          /\ Get(w.after, "status", "") = w.op.args.status
          /\ Get(w.after, "last_backup", Now(0)) = w.op.args.start_time[1]
    /\ w.op.kind \in SnapshotKinds =>
          Get(w.after, "archive_count", -1) = Len(SnapshotParts(w.op).archives)
    /\ (w.op.kind = "event" /\ Gated(w.op.args)) =>
          Get(w.after, "status", "") = w.op.args.event_type

\* a field is lost only by a write computed from a summary that another
\* process has overwritten since, and the writer's fields are then present
LostOnlyInWindow ==
    summary_write.proc # 0 =>
        /\ LostField(summary_write) => summary_write.stale
        /\ OwnFieldsPresent(summary_write)

\* C9 as stated: in every interleaving each write of the summary follows
\* directly the read it is computed from, all other file writes of the
\* operation come before that read, and a field is lost only when another
\* summary write fell between the read and the write, the writer's own
\* fields being present.
C9_ReadJustBeforeWrite ==
    /\ \A p \in Procs : /\ FreshlyRead(procs[p].log)
                        /\ WritesAfterSummary(procs[p].log) = {}
    /\ LostOnlyInWindow

\* ------------------------------------------------------------- failures
\* C10: an invocation one of whose writes failed reports the failure to its
\* caller; none returns normally after a failed write.
C10_WriteFailureReported ==
    last.write_failed => last.status = "error"

\* -------------------------------------------------------- schedule status
\* the string is one or more digits followed by exactly one of m, h, d
WellFormedMaxAge(text) ==
    /\ Len(text) >= 2
    /\ \A i \in 1..(Len(text) - 1) : IsDigit(text[i])
    /\ text[Len(text)] \in {"m", "h", "d"}
\* N * 60, N * 3600 or N * 86400 for the well-formed string <N><unit>
SecondsOf(text) ==
    int(SubSeq(text, 1, Len(text) - 1))
        * (CASE text[Len(text)] = "m" -> 60
             [] text[Len(text)] = "h" -> 3600
             [] text[Len(text)] = "d" -> 86400)

\* C14: parse_max_age_to_seconds returns N*60, N*3600, N*86400 for "<N>m",
\* "<N>h", "<N>d", and raises for every string that is not digits followed
\* by exactly one of m, h, d.
C14_ParseMaxAge ==
    reply.query = "parse_max_age" =>
        IF WellFormedMaxAge(reply.args.text)
        THEN ~reply.none /\ reply.v = <<[seconds |-> SecondsOf(reply.args.text)]>>
        ELSE reply.none

\* C13: with a last-backup timestamp and a well-formed max_age the status is
\* "overdue" exactly when the timestamp lies before now less max_age, and
\* "on-time" otherwise; it is "unknown" exactly when there is no timestamp.
C13_ScheduleStatus ==
    (reply.query = "schedule_status" /\ WellFormedMaxAge(reply.args.text)) =>
        LET stamp == reply.args.stamp
            status == reply.v[1].scheduleStatus
        IN /\ IsNone(stamp) => status = "unknown"
           /\ (~IsNone(stamp) /\ stamp[1].tz # "?") =>
                 status = IF Instant(stamp[1]) * 3600
                                < reply.now * 3600 - SecondsOf(reply.args.text)
                          THEN "overdue" ELSE "on-time"

\* --------------------------------------------------------------- queries
\* no server process is inside a handler
AllIdle == \A p \in Procs : procs[p].pc = 0
\* the entries of a job list for one job id
EntriesOf(jobs, job_id) == SelectSeq(jobs, LAMBDA job : job.jobId = job_id)
PlaceholderStats ==
    [archiveCount |-> 0, fullSize |-> ZeroB, compressedSize |-> ZeroB,
     deduplicatedSize |-> ZeroB, compressionRatio |-> ZeroPct]

\* C11: whatever is stored, get_all_jobs returns exactly one entry for each
\* configured job, and a job with no stored records appears with the
\* placeholder statistics and the schedule status "unknown".
C11_EveryJobListed ==
    AllIdle =>
        LET jobs == get_all_jobs(data_dir, JobConfigs, JobsByName, clock).v
        IN \A j \in DOMAIN JobConfigs :
              /\ Len(EntriesOf(jobs, j)) = 1
              /\ data_dir[j] = EmptyJobDir =>
                    /\ EntriesOf(jobs, j)[1].stats = PlaceholderStats
                    /\ EntriesOf(jobs, j)[1].scheduleStatus = "unknown"

\* C15: get_job_details returns None exactly for a job id without a
\* configuration; what is stored for a configured job never makes it None.
C15_NotFoundOnlyUnconfigured ==
    AllIdle =>
        \A j \in Jobs \cup {"j9"} :
            get_job_details(data_dir, JobConfigs, j, clock).none
                <=> j \notin DOMAIN JobConfigs

\* the archive timestamps of a job directory that parse
ParseableStamps(dir) ==
    {StartOrTime(ArchivesOf(dir)[i])[1] :
        i \in {i \in 1..Len(ArchivesOf(dir)) :
                  /\ ~IsNone(StartOrTime(ArchivesOf(dir)[i]))
                  /\ StartOrTime(ArchivesOf(dir)[i])[1].tz # "?"}}
\* the timestamp the schedule status is to be computed from
ScheduleStamp(dir) ==
    IF ParseableStamps(dir) # {}
    THEN Some(CHOOSE t \in ParseableStamps(dir) :
                 \A o \in ParseableStamps(dir) : Instant(o) <= Instant(t))
    ELSE IF Has(SummaryOf(dir), "last_successful_backup")
    THEN Some(SummaryOf(dir)["last_successful_backup"])
    ELSE IF Has(SummaryOf(dir), "last_backup")
    THEN Some(SummaryOf(dir)["last_backup"])
    ELSE None

\* C12: the schedule status of a job in the answers of get_all_jobs and
\* get_job_details is computed from the latest archive timestamp that
\* parses, else from the summary's last_successful_backup, else from its
\* last_backup, and is "unknown" when there is none of the three.
C12_SchedulePrecedence ==
    (reply.query \in {"jobs", "job"} /\ ~reply.none) =>
        \A i \in 1..Len(reply.v) :
            LET job == reply.v[i]
                stamp == ScheduleStamp(data_dir[job.jobId])
            IN /\ job.schedule_time = stamp
               /\ job.scheduleStatus =
                     calculate_schedule_status(stamp, job.maxAge, reply.now)
               /\ IsNone(stamp) => job.scheduleStatus = "unknown"

\* the items of the pages at offset, offset + limit, ... up to the end of the
\* archive list, one after the other; << >> from a page that is None on
RECURSIVE ConcatPages(_, _, _, _, _, _)
ConcatPages(dir, offset, limit, sort_by, sort_order, now) ==
    LET page == get_job_archives(dir, offset, limit, sort_by, sort_order, now)
    IN IF page.none \/ offset >= Len(ArchivesOf(dir)) THEN << >>
       ELSE page.v[1].items
            \o ConcatPages(dir, offset + limit, limit, sort_by, sort_order, now)

\* C16: get_job_archives on a stored archive list returns a page of at most
\* `limit` items, with total the length of the list and hasMore equal to
\* offset + limit < total; the pages at offsets 0, limit, 2*limit, ... hold
\* every archive once, in the order of the whole sorted list.
C16_ArchivePages ==
    (reply.query = "archives" /\ Exists(data_dir[reply.job].archives)) =>
        LET a == reply.args
            dir == data_dir[reply.job]
            total == Len(ArchivesOf(dir))
            whole == get_job_archives(dir, 0, total, a.sort_by, a.sort_order, reply.now)
            pages == ConcatPages(dir, 0, a.limit, a.sort_by, a.sort_order, reply.now)
        IN /\ ~reply.none
           /\ Len(reply.v[1].items) <= a.limit
           /\ reply.v[1].total = total
           /\ reply.v[1].hasMore = (a.offset + a.limit < total)
           /\ ~whole.none
           /\ pages = whole.v[1].items
           /\ {pages[i].name : i \in 1..Len(pages)}
                 = {ArchivesOf(dir)[i]["name"] : i \in 1..total}
           /\ Len(pages) = total

\* the last request is a borgmatic push with a label that no entry of the
\* pushed repository list carries
UnknownLabel ==
    /\ reply.query \in {"borgmatic_info", "borgmatic_rinfo"}
    /\ ~IsNone(reply.args.label)
    /\ reply.payload.is_list
    /\ IndexOfLabel(reply.payload.v, reply.args.label[1]) = 0

\* C17: a borgmatic push with a label that no entry of the pushed list
\* carries fails, and nothing is stored for the job: the storage handler is
\* not called with another repository of the list.
C17_UnknownLabelRejected ==
    UnknownLabel => reply.http # 200 /\ reply.none

\* the core found nothing for the last query: a job that is not configured,
\* a run that is not stored, an event without info
NotFoundOutcome ==
    /\ reply.query \in {"job", "run", "event_info"}
    /\ reply.none

\* the last push was refused for its input: several repositories and no
\* label, or a label that selected nothing
InvalidInputOutcome ==
    /\ reply.query \in {"borgmatic_info", "borgmatic_rinfo"}
    /\ reply.none

\* C18: a not-found outcome of the core is answered 404 and an invalid-input
\* outcome is answered 400 with the violated constraint in its detail;
\* neither is answered with the generic 500.
C18_ErrorResponses ==
    /\ NotFoundOutcome => reply.http = 404
    /\ InvalidInputOutcome =>
          /\ reply.http = 400
          /\ reply.detail \in {"Multiple repositories found",
                               "Repository with label not found"}

\* the last query asked for optional data the job does not hold: the
\* archives of a job without archives.json, the runs of a job without
\* runs.json, a listed run without log file
NoArchiveFile == reply.query = "archives" /\ ~Exists(data_dir[reply.job].archives)
NoRunFile == reply.query = "runs" /\ ~Exists(data_dir[reply.job].runs)
NoLogFile ==
    /\ reply.query = "run"
    /\ Exists(data_dir[reply.job].runs)
    /\ IndexOfRun(RunsOf(data_dir[reply.job]), reply.args.id) # 0
    /\ ~Has(data_dir[reply.job].logs, reply.args.id)

\* C19: absent optional data is answered with an empty result and status
\* 200: an empty archive page, an empty run list, a run with zero log lines.
C19_AbsentIsEmpty ==
    /\ NoArchiveFile =>
          /\ ~reply.none
          /\ reply.http = 200
          /\ reply.v[1].items = << >>
    /\ NoRunFile =>
          /\ ~reply.none
          /\ reply.http = 200
          /\ reply.v = << >>
    /\ NoLogFile =>
          /\ ~reply.none
          /\ reply.http = 200
          /\ reply.v[1].logLines = << >>
          /\ reply.v[1].totalLines = 0

\* the entries of a stored archive list whose start is no date, and the
\* names of the others
Malformed(dir) ==
    {i \in 1..Len(ArchivesOf(dir)) :
        /\ Has(ArchivesOf(dir)[i], "start")
        /\ IsNone(fromisoformat(ArchivesOf(dir)[i]["start"]))}
WellFormedNames(dir) ==
    {ArchivesOf(dir)[i]["name"] : i \in (1..Len(ArchivesOf(dir))) \ Malformed(dir)}

\* C20: a stored archive entry with an unparseable start is passed over by
\* the listings: get_job_archives still answers, and its pages hold every
\* other archive of the list; get_all_jobs still lists every configured job.
C20_MalformedSkipped ==
    /\ (reply.query = "archives" /\ Malformed(data_dir[reply.job]) # {}) =>
          LET a == reply.args
              dir == data_dir[reply.job]
              whole == get_job_archives(dir, 0, Len(ArchivesOf(dir)), a.sort_by,
                                        a.sort_order, reply.now)
          IN /\ ~reply.none
             /\ reply.http = 200
             /\ ~whole.none
             /\ WellFormedNames(dir)
                   \subseteq {whole.v[1].items[i].name : i \in 1..Len(whole.v[1].items)}
    /\ (reply.query = "jobs" /\ \E j \in Jobs : Malformed(data_dir[j]) # {}) =>
          /\ ~reply.none
          /\ \A j \in Jobs : Len(EntriesOf(reply.v, j)) = 1

\* ------------------------------------------------------- job configuration
\* the job id a configuration file carries, None for a file that carries
\* none
JobIdOf(file) ==
    IF Exists(file) /\ Content(file) # Garbled /\ Has(Content(file), "job_id")
    THEN Some(Content(file)["job_id"]) ELSE None
\* the files of a directory that share their job id with another file
SharingJobId(dir) ==
    {f \in DOMAIN dir : /\ ~IsNone(JobIdOf(dir[f]))
                        /\ validate_job_id(JobIdOf(dir[f])[1])
                        /\ \E g \in DOMAIN dir \ {f} : JobIdOf(dir[g]) = JobIdOf(dir[f])}
\* the files an error names
NamedIn(errors) == {errors[i].file : i \in 1..Len(errors)}

\* C21: validate_all_configs on a directory in which two files carry the
\* same job_id raises, its error names both of the files, and it returns
\* no configuration.
C21_DuplicateNamesBoth ==
    (config_call.call = "validate_all_configs" /\ SharingJobId(config_call.before) # {}) =>
        /\ config_call.raised
        /\ config_call.configs = EmptyDict
        /\ SharingJobId(config_call.before) \subseteq NamedIn(config_call.errors)

\* the last call is a validate_and_fix_job_config that returned
Repaired == config_call.call = "validate_and_fix_job_config" /\ ~config_call.raised
\* the api_keys of the file before the call and in the returned configuration
KeysBefore == Get(Content(config_call.before[config_call.file]), "api_keys", << >>)
KeysAfter == config_call.configs[config_call.file]["api_keys"]
\* the API keys a directory holds
KeysIn(dir) ==
    UNION {{Get(Content(dir[f]), "api_keys", << >>)[i] :
               i \in 1..Len(Get(Content(dir[f]), "api_keys", << >>))} :
           f \in {g \in DOMAIN dir : Exists(dir[g]) /\ Content(dir[g]) # Garbled}}
\* a key of at least 32 characters that the directory did not hold before
FreshKey(key) ==
    /\ key.str
    /\ key.chars >= 32
    /\ key \notin KeysIn(config_call.before)
\* the returned configuration is what the source file holds
Persisted == config_dir[config_call.file] = File(config_call.configs[config_call.file])

\* what validate_and_fix_job_config does to api_keys, `replaced` telling
\* which keys of a non-empty list it replaces
KeyRepair(replaced(_)) ==
    Repaired =>
        IF KeysBefore # << >>
        THEN /\ Len(KeysAfter) = Len(KeysBefore)
             /\ \A i \in 1..Len(KeysBefore) :
                   IF replaced(KeysBefore[i]) THEN FreshKey(KeysAfter[i])
                   ELSE KeysAfter[i] = KeysBefore[i]
             /\ (\E i \in 1..Len(KeysBefore) : replaced(KeysBefore[i])) =>
                   config_call.modified /\ Persisted
        ELSE /\ Len(KeysAfter) = 1
             /\ FreshKey(KeysAfter[1])
             /\ KeysAfter[1].chars = 32
             /\ config_call.modified /\ Persisted

\* C22: validate_and_fix_job_config replaces every key shorter than 16
\* characters of a non-empty api_keys list by a fresh key of at least 32
\* characters and leaves every other key as it is and where it is; it
\* returns modified and writes the file when it replaced a key; an empty or
\* missing list becomes a list of one generated 32-character key.
C22_KeyRepair == KeyRepair(LAMBDA key : key.str /\ key.chars < 16)

\* C22, amended: the keys replaced are those that are not a str of at least
\* 16 characters, which takes in every entry of the list that is no str.
C22_KeyRepairOfNonStrings == KeyRepair(LAMBDA key : ~(key.str /\ key.chars >= 16))

\* a list with a short key before a key of 16 characters was repaired
C22_Witness ==
    /\ Repaired
    /\ Len(KeysBefore) = 2
    /\ KeysBefore[1].chars < 16
    /\ KeysAfter[1].chars = 32
    /\ KeysAfter[2] = KeysBefore[2]
    /\ KeysBefore[2].chars = 16
    /\ Persisted

\* the text is one or more characters of the class [A-Za-z0-9_-] and
\* nothing else
WellFormedJobId(text) ==
    /\ Len(text) >= 1
    /\ \A i \in 1..Len(text) : text[i] \in JobIdChars
\* the last call is validate_and_fix_job_config on a file whose job_id is
\* missing, empty or not of that form
InvalidJobId ==
    /\ config_call.call = "validate_and_fix_job_config"
    /\ LET job_id == JobIdOf(config_call.before[config_call.file])
       IN IsNone(job_id) \/ ~WellFormedJobId(job_id[1])

\* C23: validate_and_fix_job_config on a configuration whose job_id is
\* missing, empty or not made of the characters A-Z, a-z, 0-9, _ and - alone
\* raises and repairs nothing: the directory is as it was before the call.
C23_InvalidJobIdUntouched ==
    InvalidJobId =>
        /\ config_call.raised
        /\ ~config_call.modified
        /\ config_dir = config_call.before

\* the last request is a job query whose loading of the configuration failed
BatchFailed == config_call.call = "get_all_job_configs" /\ config_call.raised

\* C24: when the loading of the configuration fails, get_all_jobs returns an
\* empty list and get_job_details returns None for every job id; neither
\* raises.
C24_BatchFailureIsNoJobs ==
    BatchFailed =>
        /\ reply.query = "jobs" => ~reply.none /\ reply.v = << >>
        /\ reply.query = "job" => reply.none /\ reply.v = << >>

\* job j2 was asked for while its file was in order and another file was not
C24_Witness ==
    /\ BatchFailed
    /\ reply.query = "job"
    /\ reply.job = "j2"
    /\ reply.none
    /\ \E f \in ConfigFiles :
          /\ config_call.before[f] = ValidDir["b.toml"]
          /\ f \notin NamedIn(config_call.errors)

\* ------------------------------------------------------------- API tokens
\* the cached mapping, once built
Cached == auth_manager.api_key_to_job_mapping[1]
\* the mapping sends the token to the job or to the wildcard
SendsTo(mapping, token, job_id) ==
    \E key \in DOMAIN mapping :
        key = token /\ mapping[key] \in {"*", job_id}

\* C28: once the first token check has built the mapping of API keys to
\* jobs, no step changes it, whatever is done to the configuration files;
\* and every token check answers as the cached mapping tells: the token is
\* accepted for job J exactly when the mapping sends it to J or to "*".
C28_MappingCachedForLife ==
    [][/\ ~IsNone(auth_manager.api_key_to_job_mapping) => auth_manager' = auth_manager
       /\ config_call'.call = "verify_api_token_for_job" =>
             /\ ~IsNone(auth_manager'.api_key_to_job_mapping)
             /\ config_call'.accepted =
                   SendsTo(auth_manager'.api_key_to_job_mapping[1],
                           config_call'.token[1], config_call'.job)]_vars

\* after the first check the operator added a file for job j2 with a new
\* key, and a push for j2 with that key was refused; or a key that no file
\* of the directory holds any more was still accepted
C28_Witness ==
    /\ config_call.call = "verify_api_token_for_job"
    /\ ~IsNone(config_call.cache_before.api_key_to_job_mapping)
    /\ \/ /\ config_call.token[1] = AddedKey
          /\ config_call.job = "j2"
          /\ config_dir["c.toml"] = File(JobFile(<<"j", "2">>, "j2", AddedKey))
          /\ ~config_call.accepted
       \/ /\ config_call.token[1] \notin KeysIn(config_dir)
          /\ config_call.token[1] \notin ApiTokens
          /\ config_call.accepted

\* ------------------------------------------------------ the detail of a run
\* the ids of the job's run list
ListedRuns(j) == {RunsOf(data_dir[j])[i].id : i \in 1..Len(RunsOf(data_dir[j]))}

\* C25: get_run_details returns None exactly when the run id is not in the
\* job's run list; the log file has no say: a listed run without a log file
\* is answered with zero log lines, and a run that is not listed is answered
\* None also while its log file and its run file are still there.
C25_RunDetailFollowsRunList ==
    reply.query = "run" =>
        /\ reply.none <=> reply.args.id \notin ListedRuns(reply.job)
        /\ /\ reply.args.id \in ListedRuns(reply.job)
           /\ ~Has(data_dir[reply.job].logs, reply.args.id)
           => /\ reply.v[1].logLines = << >>
              /\ reply.v[1].totalLines = 0

\* a run pushed out of the list by the cap was asked for while its log file
\* and its run file were still on disk
C25_Witness ==
    /\ reply.query = "run"
    /\ reply.none
    /\ Len(RunsOf(data_dir[reply.job])) = RunCap
    /\ Has(data_dir[reply.job].logs, reply.args.id)
    /\ Has(data_dir[reply.job].run_files, reply.args.id)
\* a listed run that has no log file was asked for
C25_ListedWithoutLog ==
    /\ reply.query = "run"
    /\ ~reply.none
    /\ ~Has(data_dir[reply.job].logs, reply.args.id)

\* ---------------------------------------------------- the info of an event
\* C26: for every stored event, whatever info came with it (none, the
\* empty text, a text), has_info is true exactly when the event has an info
\* side-file; so get_event_info returns a page exactly for the events whose
\* has_info is true and None exactly for those whose has_info is false.
C26_HasInfoIffSideFile ==
    /\ \A j \in PushJobs : \A e \in DOMAIN data_dir[j].events :
          data_dir[j].events[e].has_info <=> Has(data_dir[j].infos, e)
    /\ reply.query = "event_info" =>
          (reply.none <=> ~data_dir[reply.job].events[reply.args.event].has_info)

\* ------------------------------------------------------ events only grow
\* the step is a store_event that returned
EventStored == nops' = nops + 1 /\ last'.op.kind = "event" /\ last'.status = "ok"

\* C27: a store_event that returns adds exactly one event file, under an id
\* that no event file of the job had before; and no step (a push of any kind
\* or a query) changes or removes an event file or an info side-file that
\* was there before the step.
C27_EventsAppendOnly ==
    [][/\ \A j \in Jobs :
            /\ \A e \in DOMAIN data_dir[j].events :
                  /\ Has(data_dir'[j].events, e)
                  /\ data_dir'[j].events[e] = data_dir[j].events[e]
            /\ \A e \in DOMAIN data_dir[j].infos :
                  /\ Has(data_dir'[j].infos, e)
                  /\ data_dir'[j].infos[e] = data_dir[j].infos[e]
       /\ EventStored =>
            LET before == DOMAIN data_dir[last'.op.job].events
                after == DOMAIN data_dir'[last'.op.job].events
            IN /\ before \subseteq after
               /\ Cardinality(after \ before) = 1
               /\ last'.op.args.event_id \in after \ before]_vars

\* the same store_event was called twice in a row, with the same info, and
\* the job has both events, the first as it was after the first call
C27_Witness ==
    /\ last.op.kind = "event"
    /\ last.repeat
    /\ last.op.args.info = Some("details")
    /\ Cardinality(DOMAIN data_dir[last.op.job].events) = 2
    /\ Cardinality(DOMAIN data_dir[last.op.job].infos) = 2
    /\ \A e \in DOMAIN last.before.events :
          data_dir[last.op.job].events[e] = last.before.events[e]

\* ------------------------------------------------ two runs stored at once
\* every process has returned, and two of them served store_backup_run calls
\* for the same job with different run ids
BothRunsStored ==
    /\ \A p \in Procs : procs[p].pc = 0
    /\ \E p, q \in Procs :
          /\ procs[p].op.kind = "run"
          /\ procs[q].op.kind = "run"
          /\ procs[p].op.job = procs[q].op.job
          /\ procs[p].op.args.run_id # procs[q].op.args.run_id

\* C29: when two store_backup_run calls for the same job with different
\* run ids have both returned, in whatever order their steps were taken, the
\* job's run list holds both runs.
C29_BothRunsListed ==
    BothRunsStored =>
        \A p \in Procs :
            procs[p].op.args.run_id \in ListedRuns(procs[p].op.job)

\* ------------------------------------------- the summary after a run push
\* job_summary.json of the job as the last call left it, and as it found it
SummaryNow == Content(data_dir[last.op.job].job_summary)
SummaryBefore ==
    IF Exists(last.before.job_summary) THEN Content(last.before.job_summary)
    ELSE EmptyDict
\* the last call was a store_backup_run that returned
RunStored == last.op.kind = "run" /\ last.status = "ok"

\* C30: after store_backup_run(r) has returned, job_summary.json has r's
\* status as status and r's start as last_backup, whatever they were before
\* and also when r started before the last_backup recorded before;
\* last_successful_backup is r's start when r's status is success, and is
\* what it was before (there or not there) otherwise.
C30_SummaryFollowsLastRun ==
    RunStored =>
        /\ Exists(data_dir[last.op.job].job_summary)
        /\ SummaryNow["status"] = last.op.args.status
        /\ SummaryNow["last_backup"] = last.op.args.start_time[1]
        /\ GetTrue(SummaryNow, "last_successful_backup") =
              IF last.op.args.status = "success"
              THEN last.op.args.start_time
              ELSE GetTrue(SummaryBefore, "last_successful_backup")

\* a run that is still running and started before the recorded last_backup
\* was stored after a successful one: last_backup went back, and
\* last_successful_backup stayed
C30_Witness ==
    /\ RunStored
    /\ last.op.args.status = "running"
    /\ Has(SummaryBefore, "last_backup")
    /\ SummaryBefore["last_backup"].tz = last.op.args.start_time[1].tz
    /\ last.op.args.start_time[1].wall < SummaryBefore["last_backup"].wall
    /\ SummaryBefore["status"] = "success"
    /\ Has(SummaryNow, "last_successful_backup")
    /\ SummaryNow["last_successful_backup"] # SummaryNow["last_backup"]

\* ------------------------------------------------- a run pushed twice
\* the last call was a store_backup_run that returned, with the arguments of
\* the call directly before it
RunReplayed == Completed({"run"}) /\ last.repeat

\* C31: a store_backup_run call that repeats the arguments of the call
\* before it leaves runs.json, the run files, the log files and
\* job_summary.json (apart from last_updated) as the first call left them:
\* the list gains no second record of the run and loses no other run.
C31_RunReplayIdempotent ==
    RunReplayed =>
        /\ data_dir[last.op.job].runs = last.before.runs
        /\ data_dir[last.op.job].run_files = last.before.run_files
        /\ data_dir[last.op.job].logs = last.before.logs
        /\ ApartFromStamp(After) = ApartFromStamp(Before)

\* the repeated call on a full run list that holds the run and others, its
\* log file written again
C31_Witness ==
    /\ RunReplayed
    /\ Len(RunsOf(data_dir[last.op.job])) = RunCap
    /\ last.op.args.run_id \in ListedRuns(last.op.job)
    /\ Has(data_dir[last.op.job].logs, last.op.args.run_id)
    /\ After["last_updated"] # Before["last_updated"]
\* the repeated call of a run that the cap cut from the list both times
C31_ReplayOfEvicted ==
    /\ RunReplayed
    /\ last.op.args.run_id \notin ListedRuns(last.op.job)

\* ------------------------------------------------------ the log of a run
\* the log file of the run of the last call, as the call left it and as it
\* found it
LogNow == Get(data_dir[last.op.job].logs, last.op.args.run_id, << >>)
LogBefore == Get(last.before.logs, last.op.args.run_id, << >>)
\* the last request asks for the run of the last store_backup_run call
AsksForLastRun ==
    /\ reply.query = "run"
    /\ reply.job = last.op.job
    /\ reply.args.id = last.op.args.run_id

\* C32: a store_backup_run call without log lines leaves the run's log file
\* as it found it (there or not there), and get_run_details then returns the
\* status of this call with the lines of the earlier one; a call with at
\* least one log line leaves a log file that holds its lines and nothing
\* else.
C32_LogKeptWithoutLines ==
    Completed({"run"}) =>
        /\ last.op.args.log_lines = << >> =>
              /\ Has(data_dir[last.op.job].logs, last.op.args.run_id)
                    <=> Has(last.before.logs, last.op.args.run_id)
              /\ LogNow = LogBefore
              /\ AsksForLastRun /\ ~reply.none =>
                    /\ reply.v[1].run.status = last.op.args.status
                    /\ reply.v[1].totalLines = Len(LogBefore)
                    /\ reply.v[1].logLines
                          = Slice(LogBefore, reply.args.offset, reply.args.limit)
        /\ last.op.args.log_lines # << >> =>
              /\ Has(data_dir[last.op.job].logs, last.op.args.run_id)
              /\ LogNow = last.op.args.log_lines

\* a run stored as a success with two log lines was stored again as running
\* without lines, and its detail shows the running status with the old lines
C32_Witness ==
    /\ Completed({"run"})
    /\ last.op.args.log_lines = << >>
    /\ last.op.args.status = "running"
    /\ Has(last.before.run_files, last.op.args.run_id)
    /\ last.before.run_files[last.op.args.run_id].status = "success"
    /\ AsksForLastRun
    /\ ~reply.none
    /\ reply.v[1].run.status = "running"
    /\ reply.v[1].totalLines = Len(LogLines[3])
\* a log of two lines was replaced by a log of one line
C32_LogReplaced ==
    /\ Completed({"run"})
    /\ Len(LogBefore) > Len(LogNow)
    /\ LogNow # << >>

\* ------------------------------------------------- the duration of a run
\* the run file and the list entry of the run of the last call
RunFileNow == data_dir[last.op.job].run_files[last.op.args.run_id]
RunEntryNow ==
    RunsOf(data_dir[last.op.job])[IndexOfRun(RunsOf(data_dir[last.op.job]),
                                             last.op.args.run_id)]
\* end - start of the last call is not a whole number of seconds
BetweenSeconds ==
    total_half_seconds(last.op.args.start_time[1], last.op.args.end_time[1]) % 2 = 1

\* C33: after store_backup_run the run file carries the duration
\* floor(end - start) in whole seconds when the call has both timestamps,
\* also when end - start is not a whole number of seconds and when the end
\* is before the start, and no duration when it has no end; the run's entry
\* in the run list carries the same duration as the run file.
C33_DurationIsFloor ==
    Completed({"run"}) =>
        /\ RunFileNow.duration =
              IF IsNone(last.op.args.end_time) THEN None
              ELSE Some(<<floor_seconds(total_half_seconds(last.op.args.start_time[1],
                                                           last.op.args.end_time[1])),
                         "s">>)
        /\ last.op.args.run_id \in ListedRuns(last.op.job) =>
              GetTrue(RunEntryNow, "duration") = RunFileNow.duration

\* the same for the calls whose end is not before their start
C33_DurationOfForwardRuns ==
    (/\ Completed({"run"})
     /\ ~IsNone(last.op.args.end_time)
     /\ total_half_seconds(last.op.args.start_time[1], last.op.args.end_time[1]) < 0)
    \/ C33_DurationIsFloor

\* ------------------------------------------------- the compression ratio
\* the cache statistics of the last push, {} when it carried none
PushedStats ==
    Get(Get(last.op.args.repository_info, "cache", EmptyDict), "stats", EmptyDict)

\* C34: after a snapshot push with cache statistics the summary's
\* compression_ratio is (1 - compressed/total) * 100 to one decimal for every
\* total > 0, compressed = 0 included ("100.0%"), and "0%" for total = 0;
\* after a push without statistics on a summary that had no
\* compression_ratio it is "0%".
C34_CompressionRatio ==
    Completed({"borg_info"}) =>
        IF DOMAIN PushedStats # {}
        THEN /\ Has(After, "compression_ratio")
             /\ After["compression_ratio"] =
                   IF PushedStats.total_size > 0
                   THEN RatioPct(PushedStats.total_size, PushedStats.total_csize)
                   ELSE ZeroPct
        ELSE ~Has(Before, "compression_ratio") =>
                /\ Has(After, "compression_ratio")
                /\ After["compression_ratio"] = ZeroPct

\* the same for the pushes whose statistics have a compressed size above 0
C34_RatioOfNonEmpty ==
    (Completed({"borg_info"}) /\ DOMAIN PushedStats # {} /\ PushedStats.total_csize > 0)
        => /\ Has(After, "compression_ratio")
           /\ After["compression_ratio"] =
                 IF PushedStats.total_size > 0
                 THEN RatioPct(PushedStats.total_size, PushedStats.total_csize)
                 ELSE ZeroPct

\* -------------------------------------------- a list of repository payloads
\* the last call was a borgmatic push of a list of more than one repository
ListPushed ==
    /\ Completed({"borgmatic_info", "borgmatic_rinfo"})
    /\ last.op.args.data.is_list
    /\ Len(last.op.args.data.v) > 1
\* the first entry of the pushed list
FirstRepo == last.op.args.data.v[1]

\* C35: store_borgmatic_info and store_borgmatic_rinfo, called with a list
\* of more than one repository, store the repository info and the archives
\* of the first entry only: archives.json holds the first entry's archives
\* or is left as it was, repository_info.json holds the first entry's info
\* or is left as it was, and archive_count counts the first entry's archives
\* or is left as it was.
C35_FirstEntryOnly ==
    ListPushed =>
        /\ data_dir[last.op.job].archives
              \in {last.before.archives, File(Get(FirstRepo, "archives", << >>))}
        /\ data_dir[last.op.job].repository_info
              \in {last.before.repository_info, File(extract_repository_info(FirstRepo))}
        /\ GetTrue(After, "archive_count")
              \in {GetTrue(Before, "archive_count"),
                   Some(Len(Get(FirstRepo, "archives", << >>)))}

\* the same for store_borgmatic_info alone
C35_FirstEntryOnlyInfo ==
    last.op.kind = "borgmatic_info" => C35_FirstEntryOnly

\* ------------------------------------------- one job, asked for both ways
\* the fields of JobSummary that Job inherits and both queries compute
SharedFields == {"status", "scheduleStatus", "lastBackup", "lastSuccessfulBackup",
                 "tags", "stats"}
\* the entries of a job list for the job
EntriesFor(jobs, job_id) == SelectSeq(jobs, LAMBDA e : e.jobId = job_id)
\* the result of get_job_details agrees with the job list: both have the
\* job, with equal shared fields, or neither has it
Agree(details, jobs, job_id) ==
    IF details.none THEN EntriesFor(jobs, job_id) = << >>
    ELSE /\ Len(EntriesFor(jobs, job_id)) = 1
         /\ \A f \in SharedFields :
               EntriesFor(jobs, job_id)[1][f] = details.v[1][f]

\* C36: for every configured job, get_job_details and the job's entry in
\* get_all_jobs, computed on the same stored data at the same clock
\* reading, agree on status, scheduleStatus, lastBackup,
\* lastSuccessfulBackup, tags and the five statistics.
C36_DetailsAgreeWithList ==
    /\ (reply.query = "job" /\ reply.job \in DOMAIN JobConfigs) =>
          Agree([none |-> reply.none, v |-> reply.v],
                get_all_jobs(data_dir, JobConfigs, JobsByName, reply.now).v,
                reply.job)
    /\ reply.query = "jobs" =>
          \A j \in DOMAIN JobConfigs :
              Agree(get_job_details(data_dir, JobConfigs, j, reply.now), reply.v, j)

\* the details of a job with stored archives, a summary written by a run
\* and tags were asked for: lastBackup is the latest archive's date, not the
\* summary's last_backup
C36_Witness ==
    /\ reply.query = "job"
    /\ ~reply.none
    /\ reply.v[1].tags # << >>
    /\ reply.v[1].scheduleStatus # "unknown"
    /\ ArchivesOf(data_dir[reply.job]) # << >>
    /\ Has(SummaryOf(data_dir[reply.job]), "last_backup")
    /\ reply.v[1].lastBackup # Some(SummaryOf(data_dir[reply.job])["last_backup"])

\* ------------------------------------------- the terminal failed event
\* the record store_event wrote for the last call
EventRecord == data_dir[last.op.job].events[last.op.args.event_id]
\* the last call stored a failed event of the action "everything"
FailedEverything ==
    /\ Completed({"event"})
    /\ last.op.args.event_type = "failed"
    /\ last.op.args.extra = Some([action |-> "everything"])

\* C37: a stored failed event with extra.action "everything" sets the
\* summary's status to "failed" and last_backup to the event's timestamp and
\* leaves last_successful_backup as it was, absent if it was absent; an
\* event that changes last_successful_backup is a success event with
\* action "everything".
C37_FailedEventKeepsLastSuccess ==
    /\ FailedEverything =>
          /\ After["status"] = "failed"
          /\ After["last_backup"] = EventRecord.timestamp
          /\ Unchanged("last_successful_backup", Before, After)
    /\ (Completed({"event"}) /\ ~Unchanged("last_successful_backup", Before, After)) =>
          /\ last.op.args.event_type = "success"
          /\ last.op.args.extra = Some([action |-> "everything"])
          /\ After["last_successful_backup"] = EventRecord.timestamp

\* a failed terminal event stored after a success: the summary says failed,
\* dated with the event, and still carries the earlier success's date
C37_Witness ==
    /\ FailedEverything
    /\ Has(Before, "last_successful_backup")
    /\ Before["status"] = "success"
    /\ After["last_backup"] # After["last_successful_backup"]

\* a failed terminal event on a job that never succeeded: the summary has
\* no last_successful_backup
C37_WitnessAbsent ==
    /\ FailedEverything
    /\ ~Has(After, "last_successful_backup")

\* ------------------------------------------- the shape of the run list
\* the run list of the job of the last call
RunsNow == RunsOf(data_dir[last.op.job])
\* at most RunCap entries (in the program: 100), no run_id twice
RunListBounded ==
    /\ Len(RunsNow) <= RunCap
    /\ \A i, k \in 1..Len(RunsNow) : RunsNow[i].id = RunsNow[k].id => i = k

\* C38: after every completed store_backup_run the job's run list holds at
\* most RunCap (in the program: 100) entries, no two entries have the same
\* run_id, and the entries are in the order of their start instants, the
\* latest first.
C38_RunListShape ==
    Completed({"run"}) =>
        /\ RunListBounded
        /\ \A i, k \in 1..Len(RunsNow) :
              i < k => Instant(RunsNow[i].timestamp[1]) >= Instant(RunsNow[k].timestamp[1])

\* what holds: the bound, the distinct ids, and the descending order of the
\* isoformat strings of the start times
C38_RunListShapeOnStrings ==
    Completed({"run"}) =>
        /\ RunListBounded
        /\ \A i, k \in 1..Len(RunsNow) :
              i < k => ~IsoLess(RunsNow[i].timestamp[1], RunsNow[k].timestamp[1])

\* ------------------------------------------- the other jobs' files
\* C39: a call of a push handler (store_backup_run, store_event,
\* store_borg_info, store_borgmatic_info, store_borgmatic_rinfo) for one job
\* leaves the directory of every other job as it was: job_summary.json,
\* summary.json, runs.json, the run files and logs, archives.json,
\* repository_info.json, the events and their info files.
C39_OtherJobsUntouched ==
    [][\A b \in Jobs : b # last'.op.job => data_dir'[b] = data_dir[b]]_vars

\* a handler completed for one job while another job holds a summary, a
\* run list, a run file with its log, archives, repository info, an event
\* and its info file, and the two directories differ
C39_Witness ==
    /\ last.status = "ok"
    /\ \E b \in Jobs \ {last.op.job} :
          /\ Exists(data_dir[b].job_summary) /\ Exists(data_dir[b].summary)
          /\ RunsOf(data_dir[b]) # << >>
          /\ DOMAIN data_dir[b].run_files # {} /\ DOMAIN data_dir[b].logs # {}
          /\ ArchivesOf(data_dir[b]) # << >>
          /\ Exists(data_dir[b].repository_info)
          /\ DOMAIN data_dir[b].events # {} /\ DOMAIN data_dir[b].infos # {}
          /\ data_dir[b] # data_dir[last.op.job]
          /\ data_dir[last.op.job] # last.before
====
